---- MODULE Spec2Model ----
(***************************************************************************)
(* A model of gokyle/filecache (filecache.go, filecache_118.go): the       *)
(* FileCache item store, the admission goroutine (itemListener), the       *)
(* background scanner (vacuum) and the public operations, as goroutines    *)
(* that interleave at every access to shared memory, to a channel, to the  *)
(* WaitGroup or to the disk.                                               *)
(*                                                                         *)
(* Reductions (each keeps the set of observable outcomes):                 *)
(*  - a critical section lock(); ...; unlock() is one step;                *)
(*  - getItem (isCacheNull, then the locked lookup) is one step: a lookup  *)
(*    in a nil map misses, exactly as the early return does;               *)
(*  - deleteItem (getItem, then the locked delete) is one step: delete of  *)
(*    an absent key or from a nil map does nothing;                        *)
(*  - a lookup followed at once by itm.Access() or itm.Dur() is one step;  *)
(*  - the scan of expireOldest is one step (it is followed by deleteItem   *)
(*    as a separate step);                                                 *)
(*  - the 1 microsecond sleep of Stop is no step of its own.               *)
(* The disk gives every write of a file a new modification time.           *)
(* Time is counted in ticks, TicksPerSecond of them to a second.           *)
(***************************************************************************)
EXTENDS Integers, Sequences, FiniteSets, TLC

\* ------------------------------------------------------------------ bounds
\* Channel pairs (and goroutine pairs) that Start can allocate.
MaxStarts == 2
\* Clock resolution of the model.
TicksPerSecond == 2
\* Budgets of the sequential scenario (SpecSeq): calls and writes of files.
SeqCalls == 3
SeqWrites == 1
\* Budgets of the concurrent scenario (Spec).
RaceCalls == 2
RaceReads == 1
RaceWrites == 1
\* Budgets of the scenario of asynchronous insertion (SpecAsync): calls of
\* CacheNow, calls of Cache, and the seconds that pass.
AsyncCalls == 1
AsyncSends == 1
AsyncSeconds == 1
\* Budget of the scenario of the sweep (SpecSweep): calls of Cache.
SweepSends == 2
\* Budgets of the scenario of Start and Stop (SpecLife): calls of ReadFile and
\* of Cache.
LifeReads == 1
LifeSends == 1
\* Budgets of the scenario of fair admission (SpecFair): calls of CacheNow, of
\* ReadFile and of Cache.
FairCalls == 1
FairReads == 1
FairSends == 1
\* Budgets of the scenario of the entries that grow old (SpecAge): calls of
\* CacheNow and InCache, and steps of the clock.
AgeCalls == 2
AgeTicks == 4
\* Budgets of the scenario of the aged entry (SpecExpire): calls of CacheNow
\* and InCache, and writes of the file.
ExpireCalls == 3
ExpireWrites == 1
\* Budgets of the scenario of the failed admissions (SpecFail): calls of
\* CacheNow and of Cache.
FailCalls == 1
FailSends == 2
\* Budgets of the scenario of the cache-only reads (SpecGet): calls of
\* CacheNow, GetItem and GetItemString, and writes of the file.
GetCalls == 3
GetWrites == 1
\* Budget of the scenario of Remove (SpecRemove): calls of CacheNow and of
\* Remove.
RemoveCalls == 3
\* Budgets of the scenario of ReadFile (SpecRead): calls of CacheNow and of
\* ReadFile.
ReadCalls == 1
ReadReads == 1
\* Budgets of the scenario of the eviction for capacity (SpecEvict): calls of
\* CacheNow and GetItem, and steps of the clock.
EvictCalls == 4
EvictTicks == 2
\* Budgets of the scenario of the undisturbed sweep (SpecVacuum): calls of
\* CacheNow and writes of a file.
VacuumCalls == 2
VacuumWrites == 1
\* Budgets of the scenario of the reads and the sweep (SpecTouch): calls of
\* the client, calls of ReadFile among them, and steps of the clock.
TouchCalls == 2
TouchReads == 1
TouchTicks == 4
\* Budgets of the scenario of the aged-out test (SpecRound): the largest
\* ExpireItem, calls of the client and steps of the clock.
RoundExpire == 3
RoundCalls == 3
RoundTicks == 6
\* Budget of the scenario of the stopped scanner (SpecHalt): calls of CacheNow.
HaltCalls == 1
\* Budgets of the scenario of the locks (SpecLock): calls of CacheNow and
\* WriteFile, and calls of ReadFile.
LockCalls == 1
LockReads == 1
\* Budgets of the scenario of the file written during its load (SpecSize):
\* calls of CacheNow and WriteItem, and writes of the file.
SizeCalls == 2
SizeWrites == 1
\* Budgets of the scenario of the refused load at capacity (SpecReject):
\* calls of CacheNow, of ReadFile and of Cache.
RejectCalls == 2
RejectReads == 1
RejectSends == 1
\* Budgets of the scenario of WriteFile among removals (SpecWrite): calls of
\* WriteFile, CacheNow and Remove.
WriteCalls == 3
\* Budget of the scenario of the Stop with work under way (SpecQuit): calls
\* of Cache.
QuitSends == 1
\* Budgets of the scenario of the repeated Stop (SpecTwice): calls of Stop and
\* calls of CacheNow.
TwiceStops == 2
TwiceCalls == 1
\* Budgets of the scenario of the overwritten file (SpecStale).
StaleCalls == 1
StaleSends == 1
StaleReads == 1
StaleWrites == 1

\* ------------------------------------------------------- program constants
NewCachePipeSize == 4

\* --------------------------------------------------------------- universe
EmptyName == ""
FileA == "a"
FileB == "b"
FileC == "c"
Files == {FileA, FileB, FileC}
Keys == Files \cup {EmptyName}

Callers == {"c1", "c2"}
Gos == {"g1", "g2"}
ListenerOf(g) == IF g = 1 THEN "w1" ELSE IF g = 2 THEN "w2" ELSE "w3"
VacuumOf(g) == IF g = 1 THEN "v1" ELSE IF g = 2 THEN "v2" ELSE "v3"
Gens == 1..MaxStarts
Listeners == {ListenerOf(g) : g \in Gens}
Vacuums == {VacuumOf(g) : g \in Gens}
Threads == Callers \cup Gos \cup Listeners \cup Vacuums

Content1 == <<1>>
Content2 == <<2, 2>>
Contents == {Content1, Content2}

NoItem == [content |-> <<>>, Size |-> 0 - 1, Modified |-> 0 - 1, Lastaccess |-> 0 - 1]
NoFi == [size |-> 0 - 1, mtime |-> 0 - 1]
NoMap == [k \in {} |-> NoItem]

VARIABLES
    th,          \* goroutine -> its position and locals
    items,       \* cache.items: [null, m]; m maps a name to its cacheItem
    in,          \* cache.in: 0 is nil, else the channel's number
    shutdown,    \* cache.shutdown: 0 is nil, else the channel's number
    chan,        \* the string channels made so far: number -> [buf, closed]
    sd,          \* the shutdown channels made so far: number -> closed
    wait,        \* cache.wait: the WaitGroup's counter
    dur,         \* cache.dur, in seconds
    MaxItems, MaxSize, ExpireItem, Every,
    SquelchItemNotInCache,
    disk,        \* name -> [exists, isDir, mtime, content]
    now,         \* time.Now(), in ticks
    panic,       \* "none", or the message the process died with
    lim,         \* what the scenario may still do: [calls, reads, sends, ...]
    pinned       \* history: names whose CacheNow returned nil and that nothing
                 \* of what C8 lists has touched since

cfgVars == <<MaxItems, MaxSize, ExpireItem, Every, SquelchItemNotInCache>>
chanVars == <<in, shutdown, chan, sd>>
vars == <<th, items, in, shutdown, chan, sd, wait, dur, MaxItems, MaxSize,
          ExpireItem, Every, SquelchItemNotInCache, disk, now, panic, lim, pinned>>

\* ------------------------------------------------------------ goroutines
Idle ==
    [pc |-> "idle", stack |-> <<>>, op |-> "", name |-> EmptyName, itm |-> NoItem,
     fi |-> NoFi, chg |-> FALSE, inc |-> FALSE, exp |-> FALSE, ok |-> FALSE,
     err |-> "nil", victim |-> EmptyName, todo |-> {}, ch |-> 0, sh |-> 0,
     content |-> <<>>, rok |-> FALSE, m0 |-> 0, stale0 |-> FALSE,
     stopped0 |-> FALSE, corr |-> 0, seen |-> {}, timer |-> 0, held |-> {}]

At(t, l) == panic = "none" /\ th[t].pc = l
\* call the routine at label f, to come back at label l
CallTo(r, f, l) == [r EXCEPT !.pc = f, !.stack = <<l>> \o r.stack]
\* enter InCache(name), to come back at l: its first step is that of changed
CallInCache(r, l) == [r EXCEPT !.pc = "ch_get", !.stack = <<"ic_chk", l>> \o r.stack]
\* enter itemExpired(name), to come back at l
CallItemExpired(r, l) == [r EXCEPT !.pc = "ch_get", !.stack = <<"ie_chk", l>> \o r.stack]
\* return to the caller; back in addItem after its first InCache, the goroutine
\* goes on into itemExpired without a step of its own (ok := ...; expired := ...)
Off == [Idle EXCEPT !.pc = "off"]
Ret(r) ==
    LET p == [r EXCEPT !.pc = Head(r.stack), !.stack = Tail(r.stack)]
    IN  IF p.pc = "ai_ok"
        THEN CallItemExpired([p EXCEPT !.ok = p.inc, !.inc = FALSE], "ai_exp")
        ELSE IF p.pc = "exit" THEN Off
        ELSE p
Set(t, r) == th' = [th EXCEPT ![t] = r]

\* ------------------------------------------------------------- the store
Present(n) == ~items.null /\ n \in DOMAIN items.m
isCacheNull == items.null
getItem(n) == IF Present(n) THEN items.m[n] ELSE NoItem
Size == Cardinality(DOMAIN items.m)
Without(n) == [items EXCEPT !.m = [k \in DOMAIN items.m \ {n} |-> items.m[k]]]
With(n, e) ==
    [items EXCEPT !.m = [k \in DOMAIN items.m \cup {n} |-> IF k = n THEN e ELSE items.m[k]]]
Touched(n) ==
    IF Present(n) THEN [items EXCEPT !.m[n].Lastaccess = now] ELSE items

\* ---------------------------------------------------------------- disk
Stat(n) == disk[n]
FileSize(n) == Len(disk[n].content)

\* A conversion that drops the fraction of a second.
RoundSecondsOff(d) == d \div TicksPerSecond

\* fmt.Sprintf("%0.0f", dur.Seconds()): d ticks, to the nearest second, a half
\* to the even one
RoundSeconds(d) ==
    LET q == d \div TicksPerSecond
        r == d % TicksPerSecond
    IN  IF 2 * r < TicksPerSecond THEN q
        ELSE IF 2 * r > TicksPerSecond THEN q + 1
        ELSE IF q % 2 = 0 THEN q ELSE q + 1

\* cacheItem.WasModified, as changed uses it: the stored time differs
ModifiedDiffers(itm, n) == itm.Modified # disk[n].mtime

\* expired(name): the lookup and itm.Dur()
expired(n) ==
    IF ~Present(n) THEN TRUE
    ELSE RoundSeconds(now - items.m[n].Lastaccess) >= ExpireItem

\* expired(name), called on its own
ExpiredStep(t) ==
    /\ At(t, "ex")
    /\ Set(t, Ret([th[t] EXCEPT !.exp = expired(th[t].name)]))
    /\ UNCHANGED <<items, chanVars, wait, dur, cfgVars, disk, now, panic, lim, pinned>>

\* ------------------------------------------------------------- changed
\* changed: itm, ok := cache.getItem(name)
ChangedGet(t) ==
    /\ At(t, "ch_get")
    /\ LET r == th[t]
           itm == getItem(r.name)
       IN  IF itm = NoItem
           THEN Set(t, Ret([r EXCEPT !.chg = TRUE]))
           ELSE Set(t, [r EXCEPT !.pc = "ch_stat", !.itm = itm])
    /\ UNCHANGED <<items, chanVars, wait, dur, cfgVars, disk, now, panic, lim, pinned>>

\* changed: fi, err := os.Stat(name); !itm.WasModified(fi)
ChangedStat(t) ==
    /\ At(t, "ch_stat")
    /\ LET r == th[t]
           c == ~Stat(r.name).exists \/ ModifiedDiffers(r.itm, r.name)
       IN  Set(t, Ret([r EXCEPT !.chg = c, !.itm = NoItem]))
    /\ UNCHANGED <<items, chanVars, wait, dur, cfgVars, disk, now, panic, lim, pinned>>

\* ------------------------------------------------------------- InCache
\* InCache, after changed: deleteItem and false, or the unlocked map read
InCacheCheck(t) ==
    /\ At(t, "ic_chk")
    /\ LET r == th[t]
       IN  IF r.chg
           THEN /\ Set(t, Ret([r EXCEPT !.chg = FALSE, !.inc = FALSE]))
                /\ items' = Without(r.name)
           ELSE /\ Set(t, Ret([r EXCEPT !.chg = FALSE, !.inc = Present(r.name)]))
                /\ items' = items
    /\ UNCHANGED <<chanVars, wait, dur, cfgVars, disk, now, panic, lim, pinned>>

\* ---------------------------------------------------------- itemExpired
\* An itemExpired that applies the age test whatever ExpireItem is.
ItemExpiredCheckOff(t) ==
    /\ At(t, "ie_chk")
    /\ LET r == th[t]
           e == r.chg \/ expired(r.name)
       IN  Set(t, Ret([r EXCEPT !.chg = FALSE, !.exp = e]))
    /\ UNCHANGED <<items, chanVars, wait, dur, cfgVars, disk, now, panic, lim, pinned>>

\* itemExpired, after changed: true, or ExpireItem != 0 && expired(name)
ItemExpiredCheck(t) ==
    /\ At(t, "ie_chk")
    /\ LET r == th[t]
           e == r.chg \/ (ExpireItem # 0 /\ expired(r.name))
       IN  Set(t, Ret([r EXCEPT !.chg = FALSE, !.exp = e]))
    /\ UNCHANGED <<items, chanVars, wait, dur, cfgVars, disk, now, panic, lim, pinned>>

\* -------------------------------------------------------------- addItem
\* The entry of name is in the store and agrees with the disk.
FreshInStore(n) ==
    Present(n) /\ disk[n].exists /\ items.m[n].Modified = disk[n].mtime

\* pinned, when addItem returns nil to CacheNow with the entry in the store
PinIf(r, good) ==
    IF r.op = "CacheNow" /\ good /\ FreshInStore(r.name)
    THEN pinned \cup {r.name} ELSE pinned

\* addItem: if cache.isCacheNull() { return }; ok := cache.InCache(name)
AddItemNull(t) ==
    /\ At(t, "ai")
    /\ IF isCacheNull
       THEN Set(t, Ret([th[t] EXCEPT !.err = "nil"]))
       ELSE Set(t, CallInCache(th[t], "ai_ok"))
    /\ UNCHANGED <<items, chanVars, wait, dur, cfgVars, disk, now, panic, lim, pinned>>

\* addItem: if ok && !expired { return nil } else if ok { delete(cache.items, name) }
AddItemExpired(t) ==
    /\ At(t, "ai_exp")
    /\ LET r == [th[t] EXCEPT !.exp = FALSE, !.ok = FALSE]
       IN  IF th[t].ok /\ ~th[t].exp
           THEN /\ Set(t, Ret([r EXCEPT !.err = "nil"]))
                /\ items' = items
                /\ pinned' = PinIf(r, TRUE)
           ELSE /\ Set(t, [r EXCEPT !.pc = "cf_stat"])
                /\ items' = (IF th[t].ok THEN Without(r.name) ELSE items)
                /\ pinned' = pinned
    /\ UNCHANGED <<chanVars, wait, dur, cfgVars, disk, now, panic, lim>>

\* A cacheFile whose size test lets one byte too many through.
CacheFileStatOff(t) ==
    /\ At(t, "cf_stat")
    /\ LET r == th[t]
           fi == Stat(r.name)
       IN  IF ~fi.exists THEN Set(t, [r EXCEPT !.pc = "ai_put", !.err = "ENOENT"])
           ELSE IF fi.isDir THEN Set(t, [r EXCEPT !.pc = "ai_put", !.err = "ItemIsDirectory"])
           ELSE IF FileSize(r.name) > MaxSize + 1
                THEN Set(t, [r EXCEPT !.pc = "ai_put", !.err = "ItemTooLarge"])
           ELSE Set(t, [r EXCEPT !.pc = "cf_read",
                                 !.fi = [size |-> FileSize(r.name), mtime |-> fi.mtime]])
    /\ UNCHANGED <<items, chanVars, wait, dur, cfgVars, disk, now, panic, lim, pinned>>

\* cacheFile: os.Stat(path), the directory test and the size test
CacheFileStat(t) ==
    /\ At(t, "cf_stat")
    /\ LET r == th[t]
           fi == Stat(r.name)
       IN  IF ~fi.exists THEN Set(t, [r EXCEPT !.pc = "ai_put", !.err = "ENOENT"])
           ELSE IF fi.isDir THEN Set(t, [r EXCEPT !.pc = "ai_put", !.err = "ItemIsDirectory"])
           ELSE IF FileSize(r.name) > MaxSize
                THEN Set(t, [r EXCEPT !.pc = "ai_put", !.err = "ItemTooLarge"])
           ELSE Set(t, [r EXCEPT !.pc = "cf_read",
                                 !.fi = [size |-> FileSize(r.name), mtime |-> fi.mtime]])
    /\ UNCHANGED <<items, chanVars, wait, dur, cfgVars, disk, now, panic, lim, pinned>>

\* cacheFile: os.ReadFile(path) and the new cacheItem
CacheFileRead(t) ==
    /\ At(t, "cf_read")
    /\ LET r == th[t]
       IN  IF ~disk[r.name].exists \/ disk[r.name].isDir
           THEN Set(t, [r EXCEPT !.pc = "ai_put", !.err = "ENOENT", !.fi = NoFi])
           ELSE Set(t, [r EXCEPT !.pc = "ai_put", !.fi = NoFi,
                           !.itm = [content |-> disk[r.name].content, Size |-> r.fi.size,
                                    Modified |-> r.fi.mtime, Lastaccess |-> now]])
    /\ UNCHANGED <<items, chanVars, wait, dur, cfgVars, disk, now, panic, lim, pinned>>

\* An addItem that ends its goroutine when the load has failed.
AddItemPutOff(t) ==
    /\ At(t, "ai_put")
    /\ LET r == th[t]
       IN  IF ~items.null /\ r.itm # NoItem
           THEN Set(t, [r EXCEPT !.pc = "ai_set"])
           ELSE Set(t, [r EXCEPT !.pc = "exit", !.itm = NoItem])
    /\ UNCHANGED <<items, chanVars, wait, dur, cfgVars, disk, now, panic, lim, pinned>>

\* addItem: if cache.items != nil && itm != nil { ... } else { return }
AddItemPut(t) ==
    /\ At(t, "ai_put")
    /\ LET r == th[t]
       IN  IF ~items.null /\ r.itm # NoItem
           THEN Set(t, [r EXCEPT !.pc = "ai_set"])
           ELSE Set(t, Ret([r EXCEPT !.itm = NoItem]))
    /\ UNCHANGED <<items, chanVars, wait, dur, cfgVars, disk, now, panic, lim, pinned>>

\* addItem: cache.lock(); cache.items[name] = itm; cache.unlock(); then InCache
AddItemSet(t) ==
    /\ At(t, "ai_set")
    /\ LET r == th[t]
       IN  IF items.null
           THEN /\ panic' = "assignment to entry in nil map"
                /\ Set(t, [r EXCEPT !.pc = "panic"])
                /\ items' = items
           ELSE /\ panic' = panic
                /\ Set(t, CallInCache([r EXCEPT !.itm = NoItem], "ai_fin"))
                /\ items' = With(r.name, r.itm)
    /\ UNCHANGED <<chanVars, wait, dur, cfgVars, disk, now, lim, pinned>>

\* addItem: if !cache.InCache(name) { return ItemNotInCache }; return nil
AddItemFinish(t) ==
    /\ At(t, "ai_fin")
    /\ LET r == [th[t] EXCEPT !.inc = FALSE]
       IN  /\ Set(t, Ret([r EXCEPT !.err = IF th[t].inc THEN "nil" ELSE "ItemNotInCache"]))
           /\ pinned' = PinIf(r, th[t].inc)
    /\ UNCHANGED <<items, chanVars, wait, dur, cfgVars, disk, now, panic, lim>>

\* ------------------------------------------------------------ the locks
\* The same code with the critical sections next to the disk accesses in two
\* steps each, the lock and the rest up to the unlock.  held is what the
\* goroutine has locked: "mutex" for cache.mutex, the name of an entry for the
\* lock of that cacheItem.
MutexFree == \A u \in Threads : "mutex" \notin th[u].held
EntryFree(n) == \A u \in Threads : n \notin th[u].held

\* getItem, in changed: cache.lock()
ChangedGetLock(t) ==
    /\ At(t, "ch_get")
    /\ th[t].held = {}
    /\ MutexFree
    /\ Set(t, [th[t] EXCEPT !.held = {"mutex"}])
    /\ UNCHANGED <<items, chanVars, wait, dur, cfgVars, disk, now, panic, lim, pinned>>

\* A getItem that returns to changed with the mutex still locked.
ChangedGetUnlockOff(t) ==
    /\ At(t, "ch_get")
    /\ th[t].held = {"mutex"}
    /\ LET r == th[t]
           itm == getItem(r.name)
       IN  IF itm = NoItem
           THEN Set(t, Ret([r EXCEPT !.chg = TRUE, !.held = {}]))
           ELSE Set(t, [r EXCEPT !.pc = "ch_stat", !.itm = itm])
    /\ UNCHANGED <<items, chanVars, wait, dur, cfgVars, disk, now, panic, lim, pinned>>

\* getItem, in changed: itm, ok = cache.items[name]; the deferred
\* cache.unlock(); return
ChangedGetUnlock(t) ==
    /\ At(t, "ch_get")
    /\ th[t].held = {"mutex"}
    /\ LET r == [th[t] EXCEPT !.held = {}]
           itm == getItem(r.name)
       IN  IF itm = NoItem
           THEN Set(t, Ret([r EXCEPT !.chg = TRUE]))
           ELSE Set(t, [r EXCEPT !.pc = "ch_stat", !.itm = itm])
    /\ UNCHANGED <<items, chanVars, wait, dur, cfgVars, disk, now, panic, lim, pinned>>

\* changed: fi, err := os.Stat(name); if err != nil { return true }
ChangedOsStat(t) ==
    /\ At(t, "ch_stat")
    /\ LET r == th[t]
           fi == Stat(r.name)
       IN  IF ~fi.exists
           THEN Set(t, Ret([r EXCEPT !.chg = TRUE, !.itm = NoItem]))
           ELSE Set(t, [r EXCEPT !.pc = "ch_mod",
                                 !.fi = [size |-> FileSize(r.name), mtime |-> fi.mtime]])
    /\ UNCHANGED <<items, chanVars, wait, dur, cfgVars, disk, now, panic, lim, pinned>>

\* WasModified: itm.lock.Lock()
WasModifiedLock(t) ==
    /\ At(t, "ch_mod")
    /\ th[t].held = {}
    /\ EntryFree(th[t].name)
    /\ Set(t, [th[t] EXCEPT !.held = {th[t].name}])
    /\ UNCHANGED <<items, chanVars, wait, dur, cfgVars, disk, now, panic, lim, pinned>>

\* WasModified: itm.Modified.Equal(fi.ModTime()); the deferred
\* itm.lock.Unlock(); changed returns
WasModifiedUnlock(t) ==
    /\ At(t, "ch_mod")
    /\ th[t].held = {th[t].name}
    /\ LET r == th[t]
       IN  Set(t, Ret([r EXCEPT !.chg = (r.itm.Modified # r.fi.mtime), !.itm = NoItem,
                               !.fi = NoFi, !.held = {}]))
    /\ UNCHANGED <<items, chanVars, wait, dur, cfgVars, disk, now, panic, lim, pinned>>

\* addItem: cache.lock()
AddItemSetLock(t) ==
    /\ At(t, "ai_set")
    /\ th[t].held = {}
    /\ MutexFree
    /\ Set(t, [th[t] EXCEPT !.held = {"mutex"}])
    /\ UNCHANGED <<items, chanVars, wait, dur, cfgVars, disk, now, panic, lim, pinned>>

\* addItem: cache.items[name] = itm; cache.unlock(); then InCache
AddItemSetUnlock(t) ==
    /\ At(t, "ai_set")
    /\ th[t].held = {"mutex"}
    /\ LET r == th[t]
       IN  IF items.null
           THEN /\ panic' = "assignment to entry in nil map"
                /\ Set(t, [r EXCEPT !.pc = "panic"])
                /\ items' = items
           ELSE /\ panic' = panic
                /\ Set(t, CallInCache([r EXCEPT !.itm = NoItem, !.held = {}], "ai_fin"))
                /\ items' = With(r.name, r.itm)
    /\ UNCHANGED <<chanVars, wait, dur, cfgVars, disk, now, lim, pinned>>

\* --------------------------------------------------------- expireOldest
\* The names the scan of expireOldest can end with: the first it met among
\* those of the least Lastaccess (with force), or of the least Lastaccess
\* before time.Now() (without).
Oldest(force) ==
    LET m == items.m
        cand == IF force THEN DOMAIN m ELSE {k \in DOMAIN m : m[k].Lastaccess < now}
    IN  {k \in cand : \A j \in cand : m[k].Lastaccess <= m[j].Lastaccess}

\* An expireOldest that ends its scan with any entry.
ExpireOldestScanOff(t) ==
    /\ At(t, "eo_scan")
    /\ LET r == th[t]
       IN  IF DOMAIN items.m \ {EmptyName} = {}
           THEN Set(t, Ret(r))
           ELSE \E k \in DOMAIN items.m \ {EmptyName} :
                    Set(t, [r EXCEPT !.pc = "eo_del", !.victim = k])
    /\ UNCHANGED <<items, chanVars, wait, dur, cfgVars, disk, now, panic, lim, pinned>>

\* expireOldest(true): the loop over cache.items
ExpireOldestScan(t) ==
    /\ At(t, "eo_scan")
    /\ LET r == th[t]
       IN  IF Oldest(TRUE) \ {EmptyName} = {}
           THEN Set(t, Ret(r))
           ELSE \E k \in Oldest(TRUE) \ {EmptyName} :
                    Set(t, [r EXCEPT !.pc = "eo_del", !.victim = k])
    /\ UNCHANGED <<items, chanVars, wait, dur, cfgVars, disk, now, panic, lim, pinned>>

\* expireOldest: cache.deleteItem(oldestName)
ExpireOldestDelete(t) ==
    /\ At(t, "eo_del")
    /\ Set(t, Ret(th[t]))
    /\ items' = Without(th[t].victim)
    /\ pinned' = pinned \ {th[t].victim}
    /\ UNCHANGED <<chanVars, wait, dur, cfgVars, disk, now, panic, lim>>

\* ------------------------------------------------------ Cache, CacheNow
\* A capacity test that lets a full store through.
AtCapacityOff == Size > MaxItems

\* cache.Size() == cache.MaxItems
AtCapacity == Size = MaxItems

\* CacheNow: if cache.Size() == cache.MaxItems { cache.expireOldest(true) };
\* return cache.addItem(name)
CacheNowSize(t) ==
    /\ At(t, "cn")
    /\ IF AtCapacity
       THEN Set(t, CallTo(th[t], "eo_scan", "ai"))
       ELSE Set(t, [th[t] EXCEPT !.pc = "ai"])
    /\ UNCHANGED <<items, chanVars, wait, dur, cfgVars, disk, now, panic, lim, pinned>>

\* Cache: if cache.Size() == cache.MaxItems { cache.expireOldest(true) }
CacheSize(t) ==
    /\ At(t, "ca")
    /\ IF AtCapacity
       THEN Set(t, CallTo(th[t], "eo_scan", "ca_eval"))
       ELSE Set(t, [th[t] EXCEPT !.pc = "ca_eval"])
    /\ UNCHANGED <<items, chanVars, wait, dur, cfgVars, disk, now, panic, lim, pinned>>

\* Cache: cache.in <- name, the channel operand is evaluated
CacheEval(t) ==
    /\ At(t, "ca_eval")
    /\ Set(t, [th[t] EXCEPT !.pc = "ca_send", !.ch = in])
    /\ UNCHANGED <<items, chanVars, wait, dur, cfgVars, disk, now, panic, lim, pinned>>

\* Cache: cache.in <- name, the send: for ever blocked on a nil channel,
\* blocked while the buffer is full, a panic once the channel is closed
CacheSend(t) ==
    /\ At(t, "ca_send")
    /\ th[t].ch # 0
    /\ LET r == th[t]
           c == chan[r.ch]
       IN  IF c.closed
           THEN /\ panic' = "send on closed channel"
                /\ Set(t, [r EXCEPT !.pc = "panic"])
                /\ chan' = chan
           ELSE /\ Len(c.buf) < NewCachePipeSize
                /\ panic' = panic
                /\ chan' = [chan EXCEPT ![r.ch].buf = Append(@, r.name)]
                /\ Set(t, Ret([r EXCEPT !.ch = 0]))
    /\ UNCHANGED <<items, in, shutdown, sd, wait, dur, cfgVars, disk, now, lim, pinned>>

\* ------------------------------------------------------------- ReadFile
FreeGo == IF th["g1"].pc = "off" THEN {"g1"} ELSE IF th["g2"].pc = "off" THEN {"g2"} ELSE {}

\* ReadFile, after InCache: the hit goes on to GetItem, the miss does
\* go cache.Cache(name) and goes on to the disk
ReadFileCheck(t) ==
    /\ At(t, "rf_chk")
    /\ LET r == [th[t] EXCEPT !.inc = FALSE]
       IN  IF th[t].inc
           THEN Set(t, [r EXCEPT !.pc = "rf_get"])
           ELSE \E g \in FreeGo :
                    th' = [th EXCEPT ![t] = [r EXCEPT !.pc = "rf_disk"],
                                     ![g] = [Off EXCEPT !.pc = "ca", !.op = "goCache",
                                                        !.name = r.name, !.stack = <<"exit">>,
                                                        !.stopped0 = r.stopped0]]
    /\ UNCHANGED <<items, chanVars, wait, dur, cfgVars, disk, now, panic, lim, pinned>>

\* A GetItem that falls back on the disk when the name is not in the store.
GetItemStepOff(t) ==
    /\ At(t, "rf_get")
    /\ LET r == th[t]
           itm == getItem(r.name)
       IN  Set(t, Ret([r EXCEPT !.content = IF itm = NoItem THEN disk[r.name].content
                                           ELSE itm.content,
                               !.rok = (itm # NoItem)]))
    /\ items' = Touched(th[t].name)
    /\ UNCHANGED <<chanVars, wait, dur, cfgVars, disk, now, panic, lim, pinned>>

\* GetItem: itm, ok := cache.getItem(name); content = itm.Access()
GetItemStep(t) ==
    /\ At(t, "rf_get")
    /\ LET r == th[t]
           itm == getItem(r.name)
       IN  Set(t, Ret([r EXCEPT !.content = itm.content, !.rok = (itm # NoItem)]))
    /\ items' = Touched(th[t].name)
    /\ UNCHANGED <<chanVars, wait, dur, cfgVars, disk, now, panic, lim, pinned>>

\* A ReadFile that never reports ItemNotInCache.
ReadFileDiskOff(t) ==
    /\ At(t, "rf_disk")
    /\ LET r == th[t]
       IN  IF disk[r.name].exists /\ ~disk[r.name].isDir
           THEN Set(t, Ret([r EXCEPT !.content = disk[r.name].content, !.err = "nil"]))
           ELSE Set(t, Ret([r EXCEPT !.err = "ENOENT"]))
    /\ UNCHANGED <<items, chanVars, wait, dur, cfgVars, disk, now, panic, lim, pinned>>

\* ReadFile: content, err = os.ReadFile(name), and the squelched ItemNotInCache
ReadFileDisk(t) ==
    /\ At(t, "rf_disk")
    /\ LET r == th[t]
       IN  IF disk[r.name].exists /\ ~disk[r.name].isDir
           THEN Set(t, Ret([r EXCEPT !.content = disk[r.name].content,
                              !.err = IF SquelchItemNotInCache THEN "nil" ELSE "ItemNotInCache"]))
           ELSE Set(t, Ret([r EXCEPT !.err = "ENOENT"]))
    /\ UNCHANGED <<items, chanVars, wait, dur, cfgVars, disk, now, panic, lim, pinned>>

\* ------------------------------------------------- WriteItem, WriteFile
\* WriteItem with a writer that takes every byte: itm, ok := cache.getItem(name);
\* r := itm.GetReader(); itm.Lastaccess = time.Now(); n, err := io.Copy(w, r);
\* int64(n) != itm.Size gives WriteIncomplete
WriteItemStep(t) ==
    /\ At(t, "wi")
    /\ LET r == th[t]
           itm == getItem(r.name)
       IN  IF itm = NoItem
           THEN Set(t, Ret([r EXCEPT !.err = IF SquelchItemNotInCache THEN "nil"
                                              ELSE "ItemNotInCache"]))
           ELSE Set(t, Ret([r EXCEPT !.content = itm.content, !.rok = TRUE,
                                     !.err = IF Len(itm.content) # itm.Size
                                             THEN "WriteIncomplete" ELSE "nil"]))
    /\ items' = Touched(th[t].name)
    /\ UNCHANGED <<chanVars, wait, dur, cfgVars, disk, now, panic, lim, pinned>>

\* WriteFile, after InCache: the hit goes on to WriteItem, the miss to os.Stat
WriteFileCheck(t) ==
    /\ At(t, "wf_chk")
    /\ LET r == [th[t] EXCEPT !.inc = FALSE]
       IN  IF th[t].inc
           THEN Set(t, [r EXCEPT !.pc = "wi"])
           ELSE Set(t, [r EXCEPT !.pc = "wf_stat"])
    /\ UNCHANGED <<items, chanVars, wait, dur, cfgVars, disk, now, panic, lim, pinned>>

\* WriteFile: fi, err = os.Stat(name); fi.IsDir(); go cache.Cache(name)
WriteFileStat(t) ==
    /\ At(t, "wf_stat")
    /\ LET r == th[t]
           fi == Stat(r.name)
       IN  IF ~fi.exists THEN Set(t, Ret([r EXCEPT !.err = "ENOENT"]))
           ELSE IF fi.isDir THEN Set(t, Ret([r EXCEPT !.err = "ItemIsDirectory"]))
           ELSE \E g \in FreeGo :
                    th' = [th EXCEPT ![t] = [r EXCEPT !.pc = "wf_open"],
                                     ![g] = [Off EXCEPT !.pc = "ca", !.op = "goCache",
                                                        !.name = r.name, !.stack = <<"exit">>,
                                                        !.stopped0 = r.stopped0]]
    /\ UNCHANGED <<items, chanVars, wait, dur, cfgVars, disk, now, panic, lim, pinned>>

\* WriteFile: file, err = os.Open(name); _, err = io.Copy(w, file)
WriteFileOpen(t) ==
    /\ At(t, "wf_open")
    /\ LET r == th[t]
       IN  IF disk[r.name].exists /\ ~disk[r.name].isDir
           THEN Set(t, Ret([r EXCEPT !.content = disk[r.name].content, !.err = "nil"]))
           ELSE Set(t, Ret([r EXCEPT !.err = "ENOENT"]))
    /\ UNCHANGED <<items, chanVars, wait, dur, cfgVars, disk, now, panic, lim, pinned>>

\* --------------------------------------------------------------- Remove
\* Remove: _, ok = cache.items[name]; if !ok { return }
RemoveRead(t) ==
    /\ At(t, "rm")
    /\ IF Present(th[t].name)
       THEN Set(t, [th[t] EXCEPT !.pc = "rm_del"])
       ELSE Set(t, Ret([th[t] EXCEPT !.rok = FALSE]))
    /\ UNCHANGED <<items, chanVars, wait, dur, cfgVars, disk, now, panic, lim, pinned>>

\* A Remove whose deleteItem deletes nothing.
RemoveDeleteOff(t) ==
    /\ At(t, "rm_del")
    /\ Set(t, [th[t] EXCEPT !.pc = "rm_chk"])
    /\ items' = items
    /\ pinned' = pinned \ {th[t].name}
    /\ UNCHANGED <<chanVars, wait, dur, cfgVars, disk, now, panic, lim>>

\* Remove: cache.deleteItem(name)
RemoveDelete(t) ==
    /\ At(t, "rm_del")
    /\ Set(t, [th[t] EXCEPT !.pc = "rm_chk"])
    /\ items' = Without(th[t].name)
    /\ pinned' = pinned \ {th[t].name}
    /\ UNCHANGED <<chanVars, wait, dur, cfgVars, disk, now, panic, lim>>

\* Remove: _, valid := cache.getItem(name); if valid { ok = false }
RemoveCheck(t) ==
    /\ At(t, "rm_chk")
    /\ Set(t, Ret([th[t] EXCEPT !.rok = (getItem(th[t].name) = NoItem)]))
    /\ UNCHANGED <<items, chanVars, wait, dur, cfgVars, disk, now, panic, lim, pinned>>

\* ---------------------------------------------------------------- Start
\* Start: if cache.in != nil { close(cache.in) ...
StartCloseIn(t) ==
    /\ At(t, "st")
    /\ IF in = 0
       THEN /\ Set(t, [th[t] EXCEPT !.pc = "st_items"])
            /\ UNCHANGED <<chan, panic>>
       ELSE IF chan[in].closed
            THEN /\ panic' = "close of closed channel"
                 /\ Set(t, [th[t] EXCEPT !.pc = "panic"])
                 /\ chan' = chan
            ELSE /\ panic' = panic
                 /\ chan' = [chan EXCEPT ![in].closed = TRUE]
                 /\ Set(t, [th[t] EXCEPT !.pc = "st_shut"])
    /\ UNCHANGED <<items, in, shutdown, sd, wait, dur, cfgVars, disk, now, lim, pinned>>

\* Start: ... close(cache.shutdown) }
StartCloseShutdown(t) ==
    /\ At(t, "st_shut")
    /\ IF shutdown = 0
       THEN /\ panic' = "close of nil channel"
            /\ Set(t, [th[t] EXCEPT !.pc = "panic"])
            /\ sd' = sd
       ELSE IF sd[shutdown]
            THEN /\ panic' = "close of closed channel"
                 /\ Set(t, [th[t] EXCEPT !.pc = "panic"])
                 /\ sd' = sd
            ELSE /\ panic' = panic
                 /\ sd' = [sd EXCEPT ![shutdown] = TRUE]
                 /\ Set(t, [th[t] EXCEPT !.pc = "st_items"])
    /\ UNCHANGED <<items, in, shutdown, chan, wait, dur, cfgVars, disk, now, lim, pinned>>

\* Start: cache.dur = dur; cache.items = make(map[string]*cacheItem, 0)
StartItems(t) ==
    /\ At(t, "st_items")
    /\ dur' = Every
    /\ items' = [null |-> FALSE, m |-> NoMap]
    /\ pinned' = {}
    /\ Set(t, [th[t] EXCEPT !.pc = "st_in"])
    /\ UNCHANGED <<chanVars, wait, cfgVars, disk, now, panic, lim>>

\* Start: cache.in = make(chan string, NewCachePipeSize)
StartIn(t) ==
    /\ At(t, "st_in")
    /\ chan' = Append(chan, [buf |-> <<>>, closed |-> FALSE])
    /\ in' = Len(chan) + 1
    /\ Set(t, [th[t] EXCEPT !.pc = "st_sd", !.ch = Len(chan) + 1])
    /\ UNCHANGED <<items, shutdown, sd, wait, dur, cfgVars, disk, now, panic, lim, pinned>>

\* Start: cache.shutdown = make(chan interface{}, 1)
StartShutdown(t) ==
    /\ At(t, "st_sd")
    /\ sd' = Append(sd, FALSE)
    /\ shutdown' = Len(sd) + 1
    /\ Set(t, [th[t] EXCEPT !.pc = "st_go"])
    /\ UNCHANGED <<items, in, chan, wait, dur, cfgVars, disk, now, panic, lim, pinned>>

\* Start: go cache.itemListener(); go cache.vacuum(); return nil
StartGo(t) ==
    /\ At(t, "st_go")
    /\ th' = [th EXCEPT ![t] = Ret([th[t] EXCEPT !.ch = 0, !.err = "nil"]),
                        ![ListenerOf(th[t].ch)] = [Off EXCEPT !.pc = "ls", !.op = "itemListener"],
                        ![VacuumOf(th[t].ch)] = [Off EXCEPT !.pc = "vc", !.op = "vacuum"]]
    /\ UNCHANGED <<items, chanVars, wait, dur, cfgVars, disk, now, panic, lim, pinned>>

\* --------------------------------------------------------- itemListener
\* itemListener: cache.wait.Add(1)
ListenerAdd(t) ==
    /\ At(t, "ls")
    /\ wait' = wait + 1
    /\ Set(t, [th[t] EXCEPT !.pc = "ls_eval"])
    /\ UNCHANGED <<items, chanVars, dur, cfgVars, disk, now, panic, lim, pinned>>

\* itemListener: select, the channel operands cache.in and cache.shutdown
\* are evaluated
ListenerEval(t) ==
    /\ At(t, "ls_eval")
    /\ Set(t, [th[t] EXCEPT !.pc = "ls_sel", !.ch = in, !.sh = shutdown])
    /\ UNCHANGED <<items, chanVars, wait, dur, cfgVars, disk, now, panic, lim, pinned>>

\* itemListener: case name := <-cache.in: cache.addItem(name); a closed channel
\* gives the empty name
ListenerReceive(t) ==
    /\ At(t, "ls_sel")
    /\ th[t].ch # 0
    /\ LET r == th[t]
           c == chan[r.ch]
       IN  /\ c.buf # <<>> \/ c.closed
           /\ chan' = [chan EXCEPT ![r.ch].buf = IF c.buf = <<>> THEN <<>> ELSE Tail(c.buf)]
           /\ Set(t, [r EXCEPT !.pc = "ai", !.stack = <<"ls_eval">>, !.ch = 0, !.sh = 0,
                               !.name = IF c.buf = <<>> THEN EmptyName ELSE Head(c.buf)])
    /\ UNCHANGED <<items, in, shutdown, sd, wait, dur, cfgVars, disk, now, panic, lim, pinned>>

\* itemListener: case <-cache.shutdown: cache.wait.Done(); return
ListenerShutdown(t) ==
    /\ At(t, "ls_sel")
    /\ th[t].sh # 0
    /\ sd[th[t].sh]
    /\ wait' = wait - 1
    /\ Set(t, [Off EXCEPT !.pc = "exit", !.op = "itemListener"])
    /\ UNCHANGED <<items, chanVars, dur, cfgVars, disk, now, panic, lim, pinned>>

\* --------------------------------------------------------------- vacuum
\* vacuum: if cache.Every < 1 { return }; cache.wait.Add(1)
VacuumStart(t) ==
    /\ At(t, "vc")
    /\ IF Every < 1
       THEN /\ Set(t, [Off EXCEPT !.pc = "exit", !.op = "vacuum"])
            /\ wait' = wait
       ELSE /\ Set(t, [th[t] EXCEPT !.pc = "vc_eval"])
            /\ wait' = wait + 1
    /\ UNCHANGED <<items, chanVars, dur, cfgVars, disk, now, panic, lim, pinned>>

\* vacuum: select, cache.shutdown is evaluated and time.After(cache.dur) is set
VacuumEval(t) ==
    /\ At(t, "vc_eval")
    /\ Set(t, [th[t] EXCEPT !.pc = "vc_sel", !.sh = shutdown,
                            !.timer = now + dur * TicksPerSecond])
    /\ UNCHANGED <<items, chanVars, wait, dur, cfgVars, disk, now, panic, lim, pinned>>

\* vacuum: case _ = <-cache.shutdown: cache.wait.Done(); return
VacuumShutdown(t) ==
    /\ At(t, "vc_sel")
    /\ th[t].sh # 0
    /\ sd[th[t].sh]
    /\ wait' = wait - 1
    /\ Set(t, [Off EXCEPT !.pc = "exit", !.op = "vacuum"])
    /\ UNCHANGED <<items, chanVars, dur, cfgVars, disk, now, panic, lim, pinned>>

\* vacuum: case <-time.After(cache.dur)
VacuumTimer(t) ==
    /\ At(t, "vc_sel")
    /\ now >= th[t].timer
    /\ Set(t, [th[t] EXCEPT !.pc = "vc_null", !.sh = 0, !.timer = 0])
    /\ UNCHANGED <<items, chanVars, wait, dur, cfgVars, disk, now, panic, lim, pinned>>

\* vacuum: if cache.isCacheNull() { cache.wait.Done(); return }; the sweep
\* begins: the keys that the range has to visit are those of this moment
VacuumNull(t) ==
    /\ At(t, "vc_null")
    /\ IF isCacheNull
       THEN /\ Set(t, [Off EXCEPT !.pc = "exit", !.op = "vacuum"])
            /\ wait' = wait - 1
       ELSE /\ Set(t, [th[t] EXCEPT !.pc = "vc_iter", !.todo = DOMAIN items.m,
                                    !.seen = {}, !.corr = 0])
            /\ wait' = wait
    /\ UNCHANGED <<items, chanVars, dur, cfgVars, disk, now, panic, lim, pinned>>

\* vacuum: for name, _ := range cache.items { if cache.itemExpired(name) ...
\* the range yields a key of the map that it has not yielded yet
VacuumVisit(t) ==
    /\ At(t, "vc_iter")
    /\ \E k \in DOMAIN items.m \ th[t].seen :
           Set(t, CallItemExpired([th[t] EXCEPT !.name = k, !.seen = @ \cup {k},
                                                !.todo = @ \cap DOMAIN items.m], "vc_exp"))
    /\ UNCHANGED <<items, chanVars, wait, dur, cfgVars, disk, now, panic, lim, pinned>>

\* vacuum: the range ends: every key that was there from its start and still
\* is has been yielded (a key added meanwhile may be left out)
VacuumEndSweep(t) ==
    /\ At(t, "vc_iter")
    /\ (th[t].todo \cap DOMAIN items.m) \ th[t].seen = {}
    /\ Set(t, [th[t] EXCEPT !.pc = "vc_size", !.name = EmptyName, !.todo = {}, !.seen = {}])
    /\ UNCHANGED <<items, chanVars, wait, dur, cfgVars, disk, now, panic, lim, pinned>>

\* A sweep that tests the entries and deletes none.
VacuumExpireOff(t) ==
    /\ At(t, "vc_exp")
    /\ Set(t, [th[t] EXCEPT !.pc = "vc_iter", !.exp = FALSE])
    /\ items' = items
    /\ UNCHANGED <<chanVars, wait, dur, cfgVars, disk, now, panic, lim, pinned>>

\* vacuum: ... { cache.deleteItem(name) } }
VacuumExpire(t) ==
    /\ At(t, "vc_exp")
    /\ Set(t, [th[t] EXCEPT !.pc = "vc_iter", !.exp = FALSE])
    /\ items' = IF th[t].exp THEN Without(th[t].name) ELSE items
    /\ UNCHANGED <<chanVars, wait, dur, cfgVars, disk, now, panic, lim, pinned>>

\* A correction loop that stops one entry early.
OverCapacityOff == Size > MaxItems + 1

\* the test of the correction loop: size > cache.MaxItems
OverCapacity == Size > MaxItems

\* vacuum: for size := cache.Size(); size > cache.MaxItems; size = cache.Size()
\* { cache.expireOldest(true) }
VacuumSize(t) ==
    /\ At(t, "vc_size")
    /\ IF OverCapacity
       THEN Set(t, CallTo([th[t] EXCEPT !.corr = 1], "eo_scan", "vc_size"))
       ELSE Set(t, [th[t] EXCEPT !.pc = "vc_eval", !.victim = EmptyName])
    /\ UNCHANGED <<items, chanVars, wait, dur, cfgVars, disk, now, panic, lim, pinned>>

\* ----------------------------------------------------------------- Stop
\* Stop: if cache.in != nil { close(cache.in) ...
StopCloseIn(t) ==
    /\ At(t, "sp")
    /\ IF in = 0
       THEN /\ Set(t, [th[t] EXCEPT !.pc = "sp_chk"])
            /\ UNCHANGED <<chan, panic>>
       ELSE IF chan[in].closed
            THEN /\ panic' = "close of closed channel"
                 /\ Set(t, [th[t] EXCEPT !.pc = "panic"])
                 /\ chan' = chan
            ELSE /\ panic' = panic
                 /\ chan' = [chan EXCEPT ![in].closed = TRUE]
                 /\ Set(t, [th[t] EXCEPT !.pc = "sp_shut"])
    /\ UNCHANGED <<items, in, shutdown, sd, wait, dur, cfgVars, disk, now, lim, pinned>>

\* Stop: ... close(cache.shutdown); <-time.After(1 * time.Microsecond) }
StopCloseShutdown(t) ==
    /\ At(t, "sp_shut")
    /\ IF shutdown = 0
       THEN /\ panic' = "close of nil channel"
            /\ Set(t, [th[t] EXCEPT !.pc = "panic"])
            /\ sd' = sd
       ELSE IF sd[shutdown]
            THEN /\ panic' = "close of closed channel"
                 /\ Set(t, [th[t] EXCEPT !.pc = "panic"])
                 /\ sd' = sd
            ELSE /\ panic' = panic
                 /\ sd' = [sd EXCEPT ![shutdown] = TRUE]
                 /\ Set(t, [th[t] EXCEPT !.pc = "sp_chk"])
    /\ UNCHANGED <<items, in, shutdown, chan, wait, dur, cfgVars, disk, now, lim, pinned>>

\* Stop: if cache.items != nil {
StopCheck(t) ==
    /\ At(t, "sp_chk")
    /\ Set(t, [th[t] EXCEPT !.pc = IF items.null THEN "sp_wait" ELSE "sp_size"])
    /\ UNCHANGED <<items, chanVars, wait, dur, cfgVars, disk, now, panic, lim, pinned>>

\* StoredFiles: fileList = make([]string, 0, cache.Size())
StopSize(t) ==
    /\ At(t, "sp_size")
    /\ Set(t, [th[t] EXCEPT !.pc = IF Size = 0 THEN "sp_nil" ELSE "sp_keys"])
    /\ UNCHANGED <<items, chanVars, wait, dur, cfgVars, disk, now, panic, lim, pinned>>

\* StoredFiles: if cache.isCacheNull() || cap(fileList) == 0 { return }; the
\* locked range over cache.items
StopKeys(t) ==
    /\ At(t, "sp_keys")
    /\ Set(t, [th[t] EXCEPT !.todo = DOMAIN items.m,
                            !.pc = IF DOMAIN items.m = {} THEN "sp_nil" ELSE "sp_del"])
    /\ UNCHANGED <<items, chanVars, wait, dur, cfgVars, disk, now, panic, lim, pinned>>

\* Stop: for _, name := range items { cache.deleteItem(name) }
StopDelete(t) ==
    /\ At(t, "sp_del")
    /\ \E k \in th[t].todo :
           /\ Set(t, [th[t] EXCEPT !.todo = @ \ {k},
                                   !.pc = IF th[t].todo = {k} THEN "sp_nil" ELSE "sp_del"])
           /\ items' = Without(k)
    /\ pinned' = {}
    /\ UNCHANGED <<chanVars, wait, dur, cfgVars, disk, now, panic, lim>>

\* Stop: cache.lock(); cache.items = nil; cache.unlock()
StopNil(t) ==
    /\ At(t, "sp_nil")
    /\ items' = [null |-> TRUE, m |-> NoMap]
    /\ pinned' = {}
    /\ Set(t, [th[t] EXCEPT !.pc = "sp_wait"])
    /\ UNCHANGED <<chanVars, wait, dur, cfgVars, disk, now, panic, lim>>

\* Stop: cache.wait.Wait()
StopWait(t) ==
    /\ At(t, "sp_wait")
    /\ wait = 0
    /\ Set(t, Ret(th[t]))
    /\ UNCHANGED <<items, chanVars, wait, dur, cfgVars, disk, now, panic, lim, pinned>>

\* ------------------------------------------------- the fatal map checks
\* The next step of u writes the map.
WillWriteMap(u) ==
    LET r == th[u]
    IN  \/ r.pc = "ai_set" /\ ~items.null
        \/ r.pc = "ai_exp" /\ r.ok /\ r.exp /\ Present(r.name)
        \/ r.pc = "ic_chk" /\ r.chg /\ Present(r.name)
        \/ r.pc = "vc_exp" /\ r.exp /\ Present(r.name)
        \/ r.pc = "eo_del" /\ Present(r.victim)
        \/ r.pc = "rm_del" /\ Present(r.name)
        \/ r.pc = "sp_del" /\ \E k \in r.todo : Present(k)

\* The next step of t reads, ranges over or writes the map without the mutex.
UnlockedMapAccess(t) ==
    LET r == th[t]
    IN  \/ r.pc = "ic_chk" /\ ~r.chg /\ ~items.null
        \/ r.pc = "ai_exp" /\ r.ok /\ r.exp /\ ~items.null
        \/ r.pc \in {"eo_scan", "vc_iter"} /\ Size > 0
        \/ r.pc = "rm" /\ ~items.null

\* The unlocked access of t runs while u writes the map: the runtime ends the
\* process (fatal error: concurrent map read and map write, concurrent map
\* iteration and map write, concurrent map writes).
MapRace ==
    /\ panic = "none"
    /\ \E t \in Threads, u \in Threads :
           /\ t # u
           /\ UnlockedMapAccess(t)
           /\ WillWriteMap(u)
           /\ Set(t, [th[t] EXCEPT !.pc = "panic"])
    /\ panic' = "concurrent map access"
    /\ UNCHANGED <<items, chanVars, wait, dur, cfgVars, disk, now, lim, pinned>>

\* ------------------------------------------------------- the environment
\* Another program writes the file: new contents, a new modification time.
WriteDisk(n, c) ==
    /\ panic = "none"
    /\ lim.writes > 0
    /\ disk[n].exists
    /\ disk' = [disk EXCEPT ![n].content = c, ![n].mtime = @ + 1]
    /\ lim' = [lim EXCEPT !.writes = @ - 1]
    /\ pinned' = pinned \ {n}
    /\ UNCHANGED <<th, items, chanVars, wait, dur, cfgVars, now, panic>>

\* Another program removes the file.
RemoveDisk(n) ==
    /\ panic = "none"
    /\ lim.writes > 0
    /\ disk[n].exists
    /\ disk' = [disk EXCEPT ![n].exists = FALSE, ![n].mtime = @ + 1]
    /\ lim' = [lim EXCEPT !.writes = @ - 1]
    /\ pinned' = pinned \ {n}
    /\ UNCHANGED <<th, items, chanVars, wait, dur, cfgVars, now, panic>>

\* The entry of n has aged out at time tm.
AgedAt(n, tm) ==
    ExpireItem # 0 /\ Present(n) /\ RoundSeconds(tm - items.m[n].Lastaccess) >= ExpireItem

\* Time passes.
Tick ==
    /\ panic = "none"
    /\ lim.ticks > 0
    /\ now' = now + 1
    /\ lim' = [lim EXCEPT !.ticks = @ - 1]
    /\ pinned' = {n \in pinned : ~AgedAt(n, now + 1)}
    /\ UNCHANGED <<th, items, chanVars, wait, dur, cfgVars, disk, panic>>

\* ------------------------------------------------------------- the calls
\* Active()
Active == in # 0 /\ ~isCacheNull
\* The cache is Stopped: never started, or a Stop has run and no Start or Stop
\* is under way.
Stopped ==
    /\ items.null
    /\ \A u \in Callers : th[u].op \in {"Start", "Stop"} => th[u].pc = "done"

NewCall(op, n, pc, stack) ==
    [Idle EXCEPT !.op = op, !.name = n, !.pc = pc, !.stack = stack,
                 !.m0 = disk[n].mtime, !.stale0 = (Present(n) /\ ~FreshInStore(n)),
                 !.stopped0 = Stopped]

\* A client calls when it has made no call yet or its last call has returned.
Ready(t) == panic = "none" /\ th[t].pc \in {"idle", "done"}

Call(t, r) ==
    /\ Ready(t)
    /\ lim.calls > 0
    /\ lim' = [lim EXCEPT !.calls = @ - 1]
    /\ Set(t, r)
    /\ UNCHANGED <<items, chanVars, wait, dur, cfgVars, disk, now, panic>>

CallStart(t) ==
    /\ lim.starts > 0
    /\ Len(chan) < MaxStarts
    /\ Ready(t)
    /\ Set(t, NewCall("Start", EmptyName, "st", <<"done">>))
    /\ lim' = [lim EXCEPT !.starts = @ - 1]
    /\ UNCHANGED <<items, chanVars, wait, dur, cfgVars, disk, now, panic, pinned>>

CallStop(t) ==
    /\ lim.stops > 0
    /\ Ready(t)
    /\ Set(t, NewCall("Stop", EmptyName, "sp", <<"done">>))
    /\ lim' = [lim EXCEPT !.stops = @ - 1]
    /\ pinned' = {}
    /\ UNCHANGED <<items, chanVars, wait, dur, cfgVars, disk, now, panic>>

CallCacheNow(t, n) ==
    Call(t, NewCall("CacheNow", n, "cn", <<"done">>)) /\ pinned' = pinned

CallCache(t, n) ==
    /\ Ready(t)
    /\ lim.sends > 0
    /\ lim' = [lim EXCEPT !.sends = @ - 1]
    /\ Set(t, NewCall("Cache", n, "ca", <<"done">>))
    /\ UNCHANGED <<items, chanVars, wait, dur, cfgVars, disk, now, panic, pinned>>

CallReadFile(t, n) ==
    /\ Ready(t)
    /\ lim.reads > 0
    /\ lim' = [lim EXCEPT !.reads = @ - 1]
    /\ Set(t, CallInCache(NewCall("ReadFile", n, "idle", <<"done">>), "rf_chk"))
    /\ UNCHANGED <<items, chanVars, wait, dur, cfgVars, disk, now, panic, pinned>>

CallInCacheOp(t, n) ==
    Call(t, CallInCache(NewCall("InCache", n, "idle", <<>>), "done")) /\ pinned' = pinned

\* GetItem and GetItemString: the same lookup, the bytes returned as they are
\* or as the string of the same bytes.
CallGetItem(t, n) ==
    Call(t, NewCall("GetItem", n, "rf_get", <<"done">>)) /\ pinned' = pinned

CallGetItemString(t, n) ==
    Call(t, NewCall("GetItemString", n, "rf_get", <<"done">>)) /\ pinned' = pinned

CallExpired(t, n) ==
    Call(t, NewCall("expired", n, "ex", <<"done">>)) /\ pinned' = pinned

CallWriteItem(t, n) ==
    Call(t, NewCall("WriteItem", n, "wi", <<"done">>)) /\ pinned' = pinned

CallWriteFile(t, n) ==
    Call(t, CallInCache(NewCall("WriteFile", n, "idle", <<"done">>), "wf_chk"))
    /\ pinned' = pinned

CallRemove(t, n) ==
    Call(t, NewCall("Remove", n, "rm", <<"done">>)) /\ pinned' = pinned \ {n}

\* ------------------------------------------------------------ scenarios
\* The state after NewDefaultCache and the assignments of the configuration
\* fields, with the disk d.
InitDisk(mi, ms, ei, ev, sq, d, budget) ==
    /\ th = [t \in Threads |-> IF t \in Callers THEN Idle ELSE Off]
    /\ items = [null |-> TRUE, m |-> NoMap]
    /\ in = 0
    /\ shutdown = 0
    /\ chan = <<>>
    /\ sd = <<>>
    /\ wait = 0
    /\ dur = 0
    /\ MaxItems = mi
    /\ MaxSize = ms
    /\ ExpireItem = ei
    /\ Every = ev
    /\ SquelchItemNotInCache = sq
    /\ disk = d
    /\ now = 0
    /\ panic = "none"
    /\ lim = budget
    /\ pinned = {}

\* The same with regular files of one byte at the paths of files.
InitWith(mi, ms, ei, ev, sq, files, budget) ==
    InitDisk(mi, ms, ei, ev, sq,
             [k \in Keys |-> [exists |-> k \in files, isDir |-> FALSE, mtime |-> 0,
                              content |-> IF k \in files THEN Content1 ELSE <<>>]],
             budget)

\* The steps of addItem and of what it calls.
LoadSteps(t) ==
    \/ ChangedGet(t)
    \/ ChangedStat(t)
    \/ InCacheCheck(t)
    \/ ItemExpiredCheck(t)
    \/ AddItemNull(t)
    \/ AddItemExpired(t)
    \/ CacheFileStat(t)
    \/ CacheFileRead(t)
    \/ AddItemPut(t)
    \/ AddItemSet(t)
    \/ AddItemFinish(t)

\* The steps inside the routines that every scenario with CacheNow takes.
AddSteps(t) ==
    \/ LoadSteps(t)
    \/ ExpireOldestScan(t)
    \/ ExpireOldestDelete(t)

StartSteps(t) ==
    \/ StartCloseIn(t)
    \/ StartItems(t)
    \/ StartIn(t)
    \/ StartShutdown(t)
    \/ StartGo(t)

VacuumSteps(t) ==
    \/ VacuumStart(t)
    \/ VacuumEval(t)
    \/ VacuumTimer(t)
    \/ VacuumNull(t)
    \/ VacuumVisit(t)
    \/ VacuumEndSweep(t)
    \/ VacuumExpire(t)
    \/ VacuumSize(t)

\* SpecSeq: one client starts the cache and then calls CacheNow, one call
\* at a time, while files are written; the scanner is off (Every = 0).
InitSeq ==
    \E mi \in {0, 1, 2} :
        InitWith(mi, 2, 0, 0, TRUE, Files,
                 [calls |-> SeqCalls, reads |-> 0, sends |-> 0, starts |-> 1, stops |-> 0,
                  writes |-> SeqWrites, ticks |-> 0])

NextSeq ==
    \/ CallStart("c1")
    \/ Active /\ \E n \in Files : CallCacheNow("c1", n)
    \/ CacheNowSize("c1")
    \/ StartSteps("c1")
    \/ AddSteps("c1")
    \/ \E t \in Listeners : ListenerAdd(t) \/ ListenerEval(t)
    \/ \E t \in Vacuums : VacuumStart(t)
    \/ \E n \in Files : WriteDisk(n, Content2)

SpecSeq == InitSeq /\ [][NextSeq]_vars

\* C1: with MaxItems >= 1, on a started cache that was empty, after every one
\* of a sequence of CacheNow calls made one at a time (new and cached paths
\* mixed), Size() <= MaxItems.
C1_SizeWithinMaxItems ==
    (MaxItems >= 1 /\ th["c1"].pc \in {"idle", "done"}) => Size <= MaxItems

\* A CacheNow has returned nil after it evicted an entry of a full store of two.
C1_Witness ==
    /\ th["c1"].pc = "done"
    /\ th["c1"].op = "CacheNow"
    /\ th["c1"].err = "nil"
    /\ th["c1"].victim # EmptyName
    /\ MaxItems = 2
    /\ Size = MaxItems

\* C7: with MaxItems = 0 no entry is ever admitted: Size() = 0 at every point.
C7_NothingAdmitted == MaxItems = 0 => Size = 0

\* Spec: on a started cache one client calls ReadFile on a file while another
\* calls CacheNow and Remove on it, at the same time as the goroutines that
\* ReadFile launches and as the admission goroutine, and the file is written.
InitRace ==
    InitWith(1, 2, 0, 0, TRUE, {FileA},
             [calls |-> RaceCalls, reads |-> RaceReads, sends |-> 0, starts |-> 1, stops |-> 0,
              writes |-> RaceWrites, ticks |-> 0])

ClientSteps(t) ==
    \/ CacheNowSize(t)
    \/ ReadFileCheck(t)
    \/ GetItemStep(t)
    \/ ReadFileDisk(t)
    \/ RemoveRead(t)
    \/ RemoveDelete(t)
    \/ RemoveCheck(t)

GoCacheSteps(t) ==
    \/ CacheSize(t)
    \/ CacheEval(t)
    \/ CacheSend(t)
    \/ ExpireOldestScan(t)
    \/ ExpireOldestDelete(t)

Next ==
    \/ CallStart("c1")
    \/ StartSteps("c1")
    \/ Active /\ CallReadFile("c1", FileA)
    \/ Active /\ (CallCacheNow("c2", FileA) \/ CallRemove("c2", FileA))
    \/ \E t \in Callers : ClientSteps(t) \/ AddSteps(t)
    \/ \E t \in Gos : GoCacheSteps(t)
    \/ \E t \in Listeners :
           ListenerAdd(t) \/ ListenerEval(t) \/ ListenerReceive(t) \/ AddSteps(t)
    \/ \E t \in Vacuums : VacuumStart(t)
    \/ WriteDisk(FileA, Content2)
    \/ MapRace

Spec == InitRace /\ [][Next]_vars

\* C2: a ReadFile of a file that exists and is not written during the call
\* returns, without an error, exactly the contents of the file, whatever the
\* other client, the launched goroutines and the admission goroutine do.
C2_ReadFileReturnsContents ==
    \A t \in Callers :
        (/\ th[t].pc = "done"
         /\ th[t].op = "ReadFile"
         /\ disk[th[t].name].exists
         /\ th[t].m0 = disk[th[t].name].mtime)
        => (th[t].err = "nil" /\ th[t].content = disk[th[t].name].content)

\* C8: a path whose CacheNow returned nil stays in the cache (InCache is true
\* of it) until it is written on disk, ages out, is evicted for capacity or
\* is removed by Remove or Stop.
C8_StaysInCache == \A n \in pinned : FreshInStore(n)

\* SpecStale: on a started cache one client calls Cache and CacheNow on a
\* file, the file is overwritten, and another client calls ReadFile on it.
InitStale ==
    InitWith(2, 2, 0, 0, TRUE, {FileA},
             [calls |-> StaleCalls, reads |-> StaleReads,
              sends |-> StaleSends, starts |-> 1, stops |-> 0,
              writes |-> StaleWrites, ticks |-> 0])

NextStale ==
    \/ CallStart("c1")
    \/ StartSteps("c1")
    \/ Active /\ CallReadFile("c1", FileA)
    \/ Active /\ (CallCacheNow("c2", FileA) \/ CallCache("c2", FileA))
    \/ ReadFileCheck("c1") \/ GetItemStep("c1") \/ ReadFileDisk("c1")
    \/ CacheNowSize("c2")
    \/ \E t \in Gos \cup {"c2"} : CacheSize(t) \/ CacheEval(t) \/ CacheSend(t)
    \/ \E t \in Callers \cup Listeners : LoadSteps(t)
    \/ \E t \in Listeners : ListenerAdd(t) \/ ListenerEval(t) \/ ListenerReceive(t)
    \/ \E t \in Vacuums : VacuumStart(t)
    \/ WriteDisk(FileA, Content2)

SpecStale == InitStale /\ [][NextStale]_vars

\* C9: a ReadFile called on a cached path whose file was overwritten after it
\* was cached (and is not written again during the call) returns the new
\* contents, never the cached old ones.
C9_ReadFileAfterOverwrite ==
    \A t \in Callers :
        (/\ th[t].pc = "done"
         /\ th[t].op = "ReadFile"
         /\ th[t].stale0
         /\ disk[th[t].name].exists
         /\ th[t].m0 = disk[th[t].name].mtime)
        => th[t].content = disk[th[t].name].content

\* SpecAsync: one client starts the cache and calls Cache and CacheNow on two
\* files, one call at a time; the admission goroutine installs what Cache
\* queued; the scanner sweeps every second (Every = 1) or is off (Every = 0).
InitAsync ==
    \E ev \in {0, 1} :
        InitWith(1, 2, 0, ev, TRUE, {FileA, FileB},
                 [calls |-> AsyncCalls, reads |-> 0, sends |-> AsyncSends, starts |-> 1,
                  stops |-> 0, writes |-> 0, ticks |-> AsyncSeconds * TicksPerSecond])

NextAsync ==
    \/ CallStart("c1")
    \/ StartSteps("c1")
    \/ Active /\ \E n \in {FileA, FileB} : CallCache("c1", n) \/ CallCacheNow("c1", n)
    \/ CacheNowSize("c1")
    \/ CacheSize("c1") \/ CacheEval("c1") \/ CacheSend("c1")
    \/ \E t \in {"c1"} \cup Listeners \cup Vacuums : AddSteps(t)
    \/ \E t \in Listeners : ListenerAdd(t) \/ ListenerEval(t) \/ ListenerReceive(t)
    \/ \E t \in Vacuums : VacuumSteps(t)
    \/ Tick

SpecAsync == InitAsync /\ [][NextAsync]_vars

\* The asynchronous insertions in flight: the names that Cache is about to
\* send, those in the queue, and the one that the admission goroutine has
\* received and not yet installed.
InFlight ==
    Cardinality({t \in Callers \cup Gos :
                    th[t].op \in {"Cache", "goCache"} /\ th[t].pc \notin {"done", "off", "panic"}})
    + (IF in = 0 THEN 0 ELSE Len(chan[in].buf))
    + Cardinality({t \in Listeners : th[t].pc \notin {"off", "ls", "ls_eval", "ls_sel", "exit"}})

\* No scanner is inside a sweep.
OutsideSweep == \A v \in Vacuums : th[v].pc \in {"off", "vc", "vc_eval", "vc_sel", "exit"}

\* C5: outside a sweep of the scanner, Size() exceeds MaxItems by at most the
\* number of asynchronous insertions in flight, also with Every = 0.
C5_OvershootWithinInFlight ==
    (MaxItems >= 1 /\ OutsideSweep) => Size <= MaxItems + InFlight

\* SpecLife: one client calls Start and Stop while another calls Cache and
\* ReadFile on a file, before the Start, between the two or after the Stop.
InitLife ==
    \E ev \in {0, 1} :
        InitWith(2, 2, 0, ev, TRUE, {FileA},
                 [calls |-> 0, reads |-> LifeReads, sends |-> LifeSends, starts |-> 1,
                  stops |-> 1, writes |-> 0, ticks |-> 0])

StopSteps(t) ==
    \/ StopCloseIn(t)
    \/ StopCloseShutdown(t)
    \/ StopCheck(t)
    \/ StopSize(t)
    \/ StopKeys(t)
    \/ StopDelete(t)
    \/ StopNil(t)
    \/ StopWait(t)

NextLife ==
    \/ CallStart("c1") \/ CallStop("c1")
    \/ StartSteps("c1")
    \/ StopSteps("c1")
    \/ CallCache("c2", FileA) \/ CallReadFile("c2", FileA)
    \/ ReadFileCheck("c2") \/ GetItemStep("c2") \/ ReadFileDisk("c2")
    \/ \E t \in Gos \cup {"c2"} : CacheSize(t) \/ CacheEval(t) \/ CacheSend(t)
    \/ \E t \in {"c2"} \cup Listeners : LoadSteps(t)
    \/ \E t \in Listeners :
           ListenerAdd(t) \/ ListenerEval(t) \/ ListenerReceive(t) \/ ListenerShutdown(t)
    \/ \E t \in Vacuums : VacuumStart(t) \/ VacuumEval(t) \/ VacuumShutdown(t)
    \/ MapRace

SpecLife == InitLife /\ [][NextLife]_vars

\* C3: an operation called on a cache that is Stopped (never started, or
\* stopped by Stop) does not panic and does not block for ever on the queue,
\* and neither does the goroutine it launches.
C3_SafeWhenStopped ==
    \A t \in Callers \cup Gos :
        th[t].stopped0 =>
            /\ th[t].pc # "panic"
            /\ ~(th[t].pc = "ca_send" /\ th[t].ch = 0)

\* C4: an operation called on a cache that is not Stopped, and the admission
\* goroutine that works for it, do not panic when a Stop runs at the same time.
C4_NoCrashWithStop ==
    \A t \in Threads : th[t].pc = "panic" => th[t].stopped0

\* C10: when Stop returns, the admission goroutine and the scanner that Start
\* launched have terminated.
C10_StopAwaitsGoroutines ==
    \A t \in Callers :
        (th[t].pc = "done" /\ th[t].op = "Stop")
        => \A g \in Listeners \cup Vacuums : th[g].pc \in {"off", "exit"}

\* SpecSweep: one client starts the cache and calls Cache on two files with
\* MaxItems = 1; the admission goroutine installs them and the scanner sweeps
\* when its second has passed.
InitSweep ==
    InitWith(1, 2, 0, 1, TRUE, {FileA, FileB},
             [calls |-> 0, reads |-> 0, sends |-> SweepSends, starts |-> 1,
              stops |-> 0, writes |-> 0, ticks |-> TicksPerSecond])

NextSweep ==
    \/ CallStart("c1")
    \/ StartSteps("c1")
    \/ Active /\ \E n \in {FileA, FileB} : CallCache("c1", n)
    \/ CacheSize("c1") \/ CacheEval("c1") \/ CacheSend("c1")
    \/ \E t \in {"c1"} \cup Listeners \cup Vacuums : AddSteps(t)
    \/ \E t \in Listeners : ListenerAdd(t) \/ ListenerEval(t) \/ ListenerReceive(t)
    \/ \E t \in Vacuums : VacuumSteps(t)
    \/ Tick

SpecSweep == InitSweep /\ [][NextSweep]_vars

\* C6: with MaxItems > 0, at the moment the capacity correction of a sweep
\* finishes, Size() <= MaxItems.
C6_SweepEndsWithinCapacity ==
    [][\A v \in Vacuums :
          (MaxItems > 0 /\ th[v].pc = "vc_size" /\ th'[v].pc = "vc_eval")
          => Size' <= MaxItems']_vars

\* A sweep has finished after its correction evicted an entry of a store
\* that asynchronous insertions had filled past MaxItems.
C6_Witness ==
    \E v \in Vacuums :
        /\ th[v].pc = "vc_eval"
        /\ th[v].corr = 1
        /\ MaxItems > 0
        /\ Size = MaxItems

\* SpecRestart: one client calls Start and Stop in any order, up to MaxStarts
\* Starts and one Stop; nothing is cached.  A goroutine that receives from a
\* closed queue runs addItem("").
InitRestart ==
    \E ev \in {0, 1} :
        InitWith(2, 2, 0, ev, TRUE, {FileA},
                 [calls |-> 0, reads |-> 0, sends |-> 0, starts |-> MaxStarts,
                  stops |-> 1, writes |-> 0, ticks |-> 0])

NextRestart ==
    \/ CallStart("c1") \/ CallStop("c1")
    \/ StartSteps("c1") \/ StartCloseShutdown("c1")
    \/ StopCloseIn("c1") \/ StopCloseShutdown("c1") \/ StopCheck("c1")
    \/ StopSize("c1") \/ StopNil("c1") \/ StopWait("c1")
    \/ \E t \in Listeners :
           \/ ListenerAdd(t) \/ ListenerEval(t) \/ ListenerReceive(t) \/ ListenerShutdown(t)
           \/ AddItemNull(t) \/ ChangedGet(t) \/ InCacheCheck(t) \/ ItemExpiredCheck(t)
           \/ AddItemExpired(t) \/ CacheFileStat(t) \/ AddItemPut(t)
    \/ \E t \in Vacuums : VacuumStart(t) \/ VacuumEval(t) \/ VacuumShutdown(t)

SpecRestart == InitRestart /\ [][NextRestart]_vars

\* C11: a Start on a cache that Stop has stopped does not panic (it returns
\* nil and leaves the cache Active, as a Start on a fresh cache does).
C11_StartAfterStop ==
    \A t \in Callers : (th[t].op = "Start" /\ th[t].stopped0) => th[t].pc # "panic"

\* C12: once a Start on an Active cache has returned, no goroutine that an
\* earlier Start launched waits on the new queue or on the new shutdown
\* channel: one admission goroutine and at most one scanner work for the cache.
C12_OldGoroutinesGone ==
    (\E t \in Callers : th[t].op = "Start" /\ th[t].pc = "done")
    => \A g \in Gens \ {in} :
           /\ ~(th[ListenerOf(g)].pc = "ls_sel" /\ th[ListenerOf(g)].ch = in)
           /\ ~(th[VacuumOf(g)].pc = "vc_sel" /\ th[VacuumOf(g)].sh = shutdown)

\* SpecFair: one client starts the cache and then calls CacheNow and ReadFile
\* on one file and Cache on another; the files stay as they are, the scanner
\* is off and the store never fills.  The client, its goroutines and the
\* admission goroutine of the one Start, when they can take a step, eventually
\* take one (the Go scheduler starves no goroutine); whether the runtime
\* catches an unlocked map access is left open.
InitFair ==
    InitWith(3, 2, 0, 0, TRUE, {FileA, FileB},
             [calls |-> FairCalls, reads |-> FairReads, sends |-> FairSends,
              starts |-> 1, stops |-> 0, writes |-> 0, ticks |-> 0])

\* The steps of goroutine t in this scenario, the calls of the client apart.
FairSteps(t) ==
    \/ StartSteps(t)
    \/ ReadFileCheck(t) \/ GetItemStep(t) \/ ReadFileDisk(t)
    \/ CacheNowSize(t)
    \/ CacheSize(t) \/ CacheEval(t) \/ CacheSend(t)
    \/ LoadSteps(t)
    \/ ListenerAdd(t) \/ ListenerEval(t) \/ ListenerReceive(t)
    \/ VacuumStart(t)

NextFair ==
    \/ CallStart("c1")
    \/ Active /\ (\/ CallCacheNow("c1", FileB) \/ CallReadFile("c1", FileB)
                  \/ CallCache("c1", FileA))
    \/ \E t \in Threads : FairSteps(t)
    \/ MapRace

SpecFair ==
    InitFair /\ [][NextFair]_vars
    /\ \A t \in {"c1", ListenerOf(1)} \cup Gos : WF_vars(FairSteps(t))

\* C13: when Cache(P) is called on an Active cache, by a client or by the
\* goroutine of a ReadFile miss, for a regular file within MaxSize that is not
\* modified, P is eventually in the store.
C13_EventuallyInstalled ==
    \A t \in Callers \cup Gos : \A n \in {FileA, FileB} :
        (th[t].pc = "ca" /\ th[t].name = n) ~> Present(n)

\* SpecAge: ExpireItem = 0 and the scanner sweeps every second.  One client
\* starts the cache and calls CacheNow and InCache on a file that nobody
\* writes, in a store that never fills, while the clock advances.
InitAge ==
    InitWith(2, 2, 0, 1, TRUE, {FileA},
             [calls |-> AgeCalls, reads |-> 0, sends |-> 0, starts |-> 1,
              stops |-> 0, writes |-> 0, ticks |-> AgeTicks])

NextAge ==
    \/ CallStart("c1")
    \/ StartSteps("c1")
    \/ Active /\ (CallCacheNow("c1", FileA) \/ CallInCacheOp("c1", FileA))
    \/ CacheNowSize("c1")
    \/ \E t \in {"c1"} \cup Vacuums : LoadSteps(t)
    \/ \E t \in Listeners : ListenerAdd(t) \/ ListenerEval(t)
    \/ \E t \in Vacuums : VacuumSteps(t)
    \/ Tick

SpecAge == InitAge /\ [][NextAge]_vars

\* C14: with ExpireItem = 0, while the file is not modified and no capacity
\* eviction, Remove or Stop runs, no step removes an entry or replaces it by
\* another load, however long the entry has gone unread and however many
\* sweeps have visited it.
C14_NeverExpiresByAge ==
    [][\A k \in Files :
           Present(k) => /\ Present(k)'
                         /\ items'.m[k].content = items.m[k].content
                         /\ items'.m[k].Modified = items.m[k].Modified
                         /\ items'.m[k].Lastaccess = items.m[k].Lastaccess]_vars

\* A sweep has tested an entry that has gone unread for two seconds and
\* keeps it.
C14_Witness ==
    \E t \in Vacuums :
        /\ th[t].pc = "vc_exp"
        /\ ~th[t].exp
        /\ Present(th[t].name)
        /\ now - items.m[th[t].name].Lastaccess >= 2 * TicksPerSecond

\* SpecExpire: ExpireItem is one second and the scanner is off.  One client
\* starts the cache and calls CacheNow and InCache on a file; between two
\* calls the clock advances and the file may be written.
InitExpire ==
    InitWith(2, 2, 1, 0, TRUE, {FileA},
             [calls |-> ExpireCalls, reads |-> 0, sends |-> 0, starts |-> 1,
              stops |-> 0, writes |-> ExpireWrites, ticks |-> TicksPerSecond])

NextExpire ==
    \/ CallStart("c1")
    \/ StartSteps("c1")
    \/ Active /\ (CallCacheNow("c1", FileA) \/ CallInCacheOp("c1", FileA))
    \/ CacheNowSize("c1")
    \/ LoadSteps("c1")
    \/ \E t \in Listeners : ListenerAdd(t) \/ ListenerEval(t)
    \/ \E t \in Vacuums : VacuumStart(t)
    \/ Ready("c1") /\ Tick
    \/ Ready("c1") /\ WriteDisk(FileA, Content2)

SpecExpire == InitExpire /\ [][NextExpire]_vars

\* C15: InCache(P) returns true exactly when the entry of P passes both
\* tests, unchanged on disk and, with ExpireItem != 0, not aged out; when it
\* returns false the entry of P is gone.
C15_InCacheFullCheck ==
    [][\A t \in Callers :
           (th[t].op = "InCache" /\ th[t].pc = "ic_chk" /\ th'[t].pc = "done")
           => LET n == th[t].name
                  good == FreshInStore(n) /\ ~AgedAt(n, now)
              IN  /\ th'[t].inc <=> good
                  /\ ~good => ~Present(n)']_vars

\* SpecFail: MaxSize is one byte.  FileA is a regular file of one byte; FileB
\* is a directory, a file of two bytes, or missing.  One client starts the
\* cache and calls CacheNow and Cache on the two paths, FileA only while
\* nobody has submitted it.  The client and the admission goroutine of the
\* one Start, when they can take a step, eventually take one.
FailKinds == {"dir", "big", "missing"}

FailDisk(kind) ==
    [k \in Keys |->
        IF k = FileA THEN [exists |-> TRUE, isDir |-> FALSE, mtime |-> 0, content |-> Content1]
        ELSE IF k = FileB /\ kind # "missing"
             THEN [exists |-> TRUE, isDir |-> kind = "dir", mtime |-> 0,
                   content |-> IF kind = "dir" THEN <<>> ELSE Content2]
        ELSE [exists |-> FALSE, isDir |-> FALSE, mtime |-> 0, content |-> <<>>]]

InitFail ==
    \E kind \in FailKinds :
        InitDisk(2, 1, 0, 0, TRUE, FailDisk(kind),
                 [calls |-> FailCalls, reads |-> 0, sends |-> FailSends, starts |-> 1,
                  stops |-> 0, writes |-> 0, ticks |-> 0])

\* The names waiting in the queue of the cache.
Queue == IF in = 0 THEN <<>> ELSE chan[in].buf

\* Nobody has submitted n: it is not in the store, not in the queue and not
\* with the admission goroutine.
Unsubmitted(n) ==
    /\ ~Present(n)
    /\ \A i \in 1..Len(Queue) : Queue[i] # n
    /\ \A t \in Listeners : th[t].name # n

FailSteps(t) ==
    \/ StartSteps(t)
    \/ CacheNowSize(t)
    \/ CacheSize(t) \/ CacheEval(t) \/ CacheSend(t)
    \/ LoadSteps(t)
    \/ ListenerAdd(t) \/ ListenerEval(t) \/ ListenerReceive(t)
    \/ VacuumStart(t)

NextFail ==
    \/ CallStart("c1")
    \/ Active /\ (CallCacheNow("c1", FileB) \/ CallCache("c1", FileB))
    \/ Active /\ Unsubmitted(FileA) /\ (CallCacheNow("c1", FileA) \/ CallCache("c1", FileA))
    \/ \E t \in Threads : FailSteps(t)

SpecFail ==
    InitFail /\ [][NextFail]_vars /\ \A t \in {"c1", ListenerOf(1)} : WF_vars(FailSteps(t))

\* The errors of a load that failed.
LoadErrors == {"ItemIsDirectory", "ItemTooLarge", "ENOENT"}

\* C16: while admissions of a directory, of a file above MaxSize and of a
\* missing file fail, through CacheNow and in the admission goroutine, the cache
\* stays Active and no goroutine ends in a panic, every queued name is
\* eventually taken from the queue, a CacheNow of the cacheable FileA returns
\* nil with FileA stored, a Cache of FileA leads to FileA stored, and Cache
\* reports no error to its caller.
C16_FailureDoesNotDisable ==
    /\ [](\A t \in Threads : th[t].err \in LoadErrors => Active /\ panic = "none")
    /\ (Queue # <<>>) ~> (Queue = <<>>)
    /\ [](\A t \in Callers :
            (th[t].op = "CacheNow" /\ th[t].name = FileA /\ th[t].pc = "done")
            => th[t].err = "nil" /\ Present(FileA))
    /\ \A t \in Callers : (th[t].pc = "ca" /\ th[t].name = FileA) ~> Present(FileA)
    /\ [](\A t \in Callers : (th[t].op = "Cache" /\ th[t].pc = "done") => th[t].err = "nil")

\* The admission goroutine, whose last load failed, has taken FileA from the
\* queue and stored it.
C16_Witness ==
    \E t \in Listeners :
        /\ th[t].name = FileA
        /\ th[t].pc = "ch_get"
        /\ th[t].err \in LoadErrors
        /\ Present(FileA)

\* C17: a CacheNow of a directory returns ItemIsDirectory and a CacheNow of a
\* file above MaxSize returns ItemTooLarge, both with no entry stored for the
\* path; a file of exactly MaxSize bytes is accepted; no entry of the store
\* has a Size above MaxSize.
C17_RejectsDirectoryAndLarge ==
    /\ \A t \in Callers :
           (th[t].op = "CacheNow" /\ th[t].pc = "done")
           => LET n == th[t].name
              IN  /\ (disk[n].exists /\ disk[n].isDir)
                     => th[t].err = "ItemIsDirectory" /\ ~Present(n)
                  /\ (disk[n].exists /\ ~disk[n].isDir /\ FileSize(n) > MaxSize)
                     => th[t].err = "ItemTooLarge" /\ ~Present(n)
                  /\ (disk[n].exists /\ ~disk[n].isDir /\ FileSize(n) = MaxSize)
                     => th[t].err = "nil" /\ Present(n)
    /\ \A k \in Keys : Present(k) => items.m[k].Size <= MaxSize

\* CacheNow has returned ItemTooLarge for the file of two bytes while the
\* file of exactly MaxSize bytes is in the store.
C17_Witness ==
    /\ th["c1"].op = "CacheNow"
    /\ th["c1"].pc = "done"
    /\ th["c1"].name = FileB
    /\ th["c1"].err = "ItemTooLarge"
    /\ Present(FileA)
    /\ items.m[FileA].Size = MaxSize

\* SpecGet: one client calls GetItem and GetItemString, before Start and
\* after it, on a file that CacheNow may have stored and that another program
\* may have overwritten since, and on a file that is not stored; the scanner
\* is off.
InitGet ==
    InitWith(2, 2, 0, 0, TRUE, {FileA, FileB},
             [calls |-> GetCalls, reads |-> 0, sends |-> 0, starts |-> 1,
              stops |-> 0, writes |-> GetWrites, ticks |-> TicksPerSecond])

NextGet ==
    \/ CallStart("c1")
    \/ StartSteps("c1")
    \/ Active /\ CallCacheNow("c1", FileA)
    \/ \E n \in {FileA, FileB} : CallGetItem("c1", n) \/ CallGetItemString("c1", n)
    \/ CacheNowSize("c1")
    \/ LoadSteps("c1")
    \/ GetItemStep("c1")
    \/ \E t \in Listeners : ListenerAdd(t) \/ ListenerEval(t)
    \/ \E t \in Vacuums : VacuumStart(t)
    \/ Ready("c1") /\ Tick
    \/ WriteDisk(FileA, Content2)

SpecGet == InitGet /\ [][NextGet]_vars

\* C18: a GetItem or GetItemString returns the stored content and true when
\* the name is in the store, whatever the disk holds, and empty content and
\* false when it is not, whatever the disk holds; it leaves the set of stored
\* names, the stored contents, the queue and the goroutines as they were.
C18_GetItemCacheOnly ==
    [][\A t \in Callers :
           (th[t].op \in {"GetItem", "GetItemString"} /\ th[t].pc = "rf_get"
            /\ th'[t].pc = "done")
           => LET n == th[t].name
              IN  /\ items'.null = items.null
                  /\ DOMAIN items'.m = DOMAIN items.m
                  /\ \A k \in DOMAIN items.m :
                         /\ items'.m[k].content = items.m[k].content
                         /\ items'.m[k].Modified = items.m[k].Modified
                  /\ chan' = chan
                  /\ \A g \in Threads \ {t} : th'[g] = th[g]
                  /\ IF Present(n)
                     THEN th'[t].rok /\ th'[t].content = items.m[n].content
                     ELSE ~th'[t].rok /\ th'[t].content = <<>>]_vars

\* GetItem has returned the stored bytes of a file that has other bytes on
\* disk by now.
C18_Witness ==
    /\ th["c1"].op = "GetItem"
    /\ th["c1"].pc = "done"
    /\ th["c1"].rok
    /\ th["c1"].content = Content1
    /\ disk[FileA].content = Content2

\* SpecRemove: one client calls CacheNow on two files and Remove on them and
\* on a path that was never cached, one call at a time, before Start and
\* after it; the scanner is off and the store never fills.
InitRemove ==
    InitWith(3, 2, 0, 0, TRUE, {FileA, FileB},
             [calls |-> RemoveCalls, reads |-> 0, sends |-> 0, starts |-> 1,
              stops |-> 0, writes |-> 0, ticks |-> 0])

NextRemove ==
    \/ CallStart("c1")
    \/ StartSteps("c1")
    \/ Active /\ \E n \in {FileA, FileB} : CallCacheNow("c1", n)
    \/ \E n \in Files : CallRemove("c1", n)
    \/ CacheNowSize("c1")
    \/ LoadSteps("c1")
    \/ RemoveRead("c1") \/ RemoveDelete("c1") \/ RemoveCheck("c1")
    \/ \E t \in Listeners : ListenerAdd(t) \/ ListenerEval(t)
    \/ \E t \in Vacuums : VacuumStart(t)

SpecRemove == InitRemove /\ [][NextRemove]_vars

\* C19: a Remove(P) that finds P absent returns false with a nil error and
\* leaves the store as it was; a Remove(P) that finds P present returns true
\* with a nil error and P absent; no step of Remove(P) removes or changes
\* the entry of another path.
C19_RemoveResult ==
    [][\A t \in Callers :
           (th[t].op = "Remove" /\ th[t].pc \in {"rm", "rm_del", "rm_chk"}
            /\ th'[t] # th[t])
           => LET n == th[t].name
              IN  /\ \A k \in Keys \ {n} :
                         Present(k) => Present(k)' /\ items'.m[k] = items.m[k]
                  /\ (th[t].pc = "rm" /\ ~Present(n))
                     => /\ th'[t].pc = "done"
                        /\ ~th'[t].rok
                        /\ th'[t].err = "nil"
                        /\ items' = items
                  /\ (th[t].pc = "rm" /\ Present(n)) => th'[t].pc # "done"
                  /\ th'[t].pc = "done" /\ th[t].pc # "rm"
                     => /\ th'[t].rok
                        /\ th'[t].err = "nil"
                        /\ ~Present(n)']_vars

\* Remove has returned true for a stored path, which is gone, while the
\* other stored path is still there.
C19_Witness ==
    /\ th["c1"].op = "Remove"
    /\ th["c1"].pc = "done"
    /\ th["c1"].name = FileA
    /\ th["c1"].rok
    /\ ~Present(FileA)
    /\ Present(FileB)

\* SpecRead: SquelchItemNotInCache is true or false.  One client starts the
\* cache and calls CacheNow on a file and ReadFile on it and on a path that
\* does not exist, while the goroutines of its misses and the admission
\* goroutine run; the scanner is off and the store never fills.
InitRead ==
    \E sq \in BOOLEAN :
        InitWith(2, 2, 0, 0, sq, {FileA},
                 [calls |-> ReadCalls, reads |-> ReadReads, sends |-> 0, starts |-> 1,
                  stops |-> 0, writes |-> 0, ticks |-> 0])

NextRead ==
    \/ CallStart("c1")
    \/ StartSteps("c1")
    \/ Active /\ CallCacheNow("c1", FileA)
    \/ Active /\ \E n \in {FileA, FileC} : CallReadFile("c1", n)
    \/ CacheNowSize("c1")
    \/ ReadFileCheck("c1") \/ GetItemStep("c1") \/ ReadFileDisk("c1")
    \/ \E t \in Gos : CacheSize(t) \/ CacheEval(t) \/ CacheSend(t)
    \/ \E t \in {"c1"} \cup Listeners : LoadSteps(t)
    \/ \E t \in Listeners : ListenerAdd(t) \/ ListenerEval(t) \/ ListenerReceive(t)
    \/ \E t \in Vacuums : VacuumStart(t)
    \/ MapRace

SpecRead == InitRead /\ [][NextRead]_vars

\* C20: a ReadFile whose InCache was true starts no goroutine, queues nothing
\* and returns a nil error; a ReadFile whose InCache was false starts one
\* goroutine that calls Cache on the path, and then returns the bytes of the
\* disk with ItemNotInCache, or with nil when SquelchItemNotInCache is true,
\* or, when the disk read fails, the error of the disk.
C20_ReadFileMissAndHit ==
    [][\A t \in Callers :
           (th[t].op = "ReadFile" /\ th'[t] # th[t])
           => LET n == th[t].name
                  spawned == {g \in Gos : th'[g] # th[g]}
              IN  /\ (th[t].pc = "rf_chk" /\ th[t].inc)
                     => spawned = {} /\ chan' = chan /\ th'[t].pc = "rf_get"
                  /\ th[t].pc = "rf_get"
                     => th'[t].pc = "done" /\ th'[t].err = "nil" /\ chan' = chan
                  /\ (th[t].pc = "rf_chk" /\ ~th[t].inc)
                     => /\ th'[t].pc = "rf_disk"
                        /\ \E g \in Gos :
                               /\ spawned = {g}
                               /\ th[g].pc = "off"
                               /\ th'[g].pc = "ca"
                               /\ th'[g].name = n
                  /\ th[t].pc = "rf_disk"
                     => /\ th'[t].pc = "done"
                        /\ IF disk[n].exists /\ ~disk[n].isDir
                           THEN /\ th'[t].content = disk[n].content
                                /\ th'[t].err = IF SquelchItemNotInCache THEN "nil"
                                                ELSE "ItemNotInCache"
                           ELSE th'[t].err = "ENOENT"]_vars

\* With SquelchItemNotInCache false, a ReadFile that missed has returned the
\* bytes of the disk with ItemNotInCache, and the path it submitted is in the
\* store.
C20_Witness ==
    /\ ~SquelchItemNotInCache
    /\ th["c1"].op = "ReadFile"
    /\ th["c1"].pc = "done"
    /\ th["c1"].name = FileA
    /\ th["c1"].err = "ItemNotInCache"
    /\ th["c1"].content = disk[FileA].content
    /\ Present(FileA)
    /\ lim.calls = ReadCalls

\* C21: no goroutine is about to read, range over or write the map without
\* the mutex while another goroutine is about to write the map.
C21_MapAccessExclusive ==
    \A t \in Threads :
        UnlockedMapAccess(t) => \A u \in Threads \ {t} : ~WillWriteMap(u)

\* C22: while P is in the store and agrees with the disk, no step of a
\* CacheNow(P) or Cache(P) changes the store: the entry of P and every other
\* entry stay as they are, at any size of the store.
C22_RecachingIdempotent ==
    [][\A t \in Callers \cup Gos :
           (th[t].op \in {"CacheNow", "Cache", "goCache"}
            /\ th[t].pc \notin {"idle", "done", "off"}
            /\ FreshInStore(th[t].name))
           => items' = items]_vars

\* SpecEvict: MaxItems is two.  One client starts the cache and calls CacheNow
\* on three files and GetItem on two of them, one call at a time; between two
\* calls the clock may advance; the scanner is off.
InitEvict ==
    InitWith(2, 2, 0, 0, TRUE, Files,
             [calls |-> EvictCalls, reads |-> 0, sends |-> 0, starts |-> 1,
              stops |-> 0, writes |-> 0, ticks |-> EvictTicks])

NextEvict ==
    \/ CallStart("c1")
    \/ StartSteps("c1")
    \/ Active /\ \E n \in Files : CallCacheNow("c1", n)
    \/ Active /\ \E n \in {FileA, FileB} : CallGetItem("c1", n)
    \/ CacheNowSize("c1")
    \/ AddSteps("c1")
    \/ GetItemStep("c1")
    \/ \E t \in Listeners : ListenerAdd(t) \/ ListenerEval(t)
    \/ \E t \in Vacuums : VacuumStart(t)
    \/ Ready("c1") /\ Tick

SpecEvict == InitEvict /\ [][NextEvict]_vars

InitVacuum ==
    InitWith(2, 2, 1, 1, TRUE, {FileA, FileB},
             [calls |-> VacuumCalls, reads |-> 0, sends |-> 0, starts |-> 1,
              stops |-> 0, writes |-> VacuumWrites, ticks |-> TicksPerSecond])

NextVacuum ==
    \/ CallStart("c1")
    \/ StartSteps("c1")
    \/ Active /\ OutsideSweep /\ \E n \in {FileA, FileB} : CallCacheNow("c1", n)
    \/ CacheNowSize("c1")
    \/ \E t \in {"c1"} \cup Vacuums : LoadSteps(t)
    \/ \E t \in Listeners : ListenerAdd(t) \/ ListenerEval(t)
    \/ \E t \in Vacuums :
           \/ VacuumStart(t) \/ VacuumEval(t)
           \/ Ready("c1") /\ VacuumTimer(t)
           \/ VacuumNull(t) \/ VacuumVisit(t) \/ VacuumExpire(t)
           \/ VacuumEndSweep(t) \/ VacuumSize(t)
    \/ OutsideSweep /\ Tick
    \/ OutsideSweep /\ WriteDisk(FileA, Content2)

SpecVacuum == InitVacuum /\ [][NextVacuum]_vars

\* C24: in a sweep that runs alone, the entry that the scanner has tested is
\* deleted when it differs from the disk or has aged out and kept when not,
\* the other entries staying as they are; when the loop over the entries
\* ends, every entry of the store agrees with the disk and has not aged out.
C24_SweepEvictsExpired ==
    [][\A v \in Vacuums :
           th'[v] # th[v]
           => /\ th[v].pc = "vc_exp"
                 => LET n == th[v].name
                    IN  /\ Present(n)' <=> (FreshInStore(n) /\ ~AgedAt(n, now))
                        /\ \A k \in DOMAIN items.m \ {n} :
                               Present(k)' /\ items'.m[k] = items.m[k]
              /\ (th[v].pc = "vc_iter" /\ th'[v].pc = "vc_size")
                 => \A k \in DOMAIN items.m : FreshInStore(k) /\ ~AgedAt(k, now)]_vars

\* A sweep has tested both entries: the one that aged out or was rewritten
\* on disk is gone, the other one is kept and is good.
C24_Witness ==
    \E v \in Vacuums :
        /\ th[v].pc = "vc_iter"
        /\ th[v].seen = {FileA, FileB}
        /\ Size = 1
        /\ \A k \in DOMAIN items.m : FreshInStore(k) /\ ~AgedAt(k, now)

\* SpecTouch: ExpireItem is two seconds, Every is one second, one file.  One
\* client starts the cache, admits the file with CacheNow, and reads it in
\* every way the package offers while it is in the store and agrees with the
\* disk; the file is never written.  A sweep begins only while the client is
\* between two calls, and during a sweep the clock stands still.
InitTouch ==
    InitWith(2, 2, 2, 1, TRUE, {FileA},
             [calls |-> TouchCalls, reads |-> TouchReads, sends |-> 0, starts |-> 1,
              stops |-> 0, writes |-> 0, ticks |-> TouchTicks])

ReadSteps(t) ==
    \/ ChangedGet(t) \/ ChangedStat(t) \/ InCacheCheck(t)
    \/ ReadFileCheck(t) \/ GetItemStep(t)
    \/ WriteFileCheck(t) \/ WriteItemStep(t)

NextTouch ==
    \/ CallStart("c1")
    \/ StartSteps("c1")
    \/ Active /\ OutsideSweep /\ lim.calls = TouchCalls /\ CallCacheNow("c1", FileA)
    \/ CacheNowSize("c1")
    \/ \E t \in {"c1"} \cup Vacuums : LoadSteps(t)
    \/ /\ OutsideSweep
       /\ FreshInStore(FileA)
       /\ \/ CallGetItem("c1", FileA) \/ CallGetItemString("c1", FileA)
          \/ CallWriteItem("c1", FileA) \/ CallInCacheOp("c1", FileA)
          \/ CallReadFile("c1", FileA)
          \/ CallWriteFile("c1", FileA)
    \/ ReadSteps("c1")
    \/ \E t \in Listeners : ListenerAdd(t) \/ ListenerEval(t)
    \/ \E t \in Vacuums :
           \/ VacuumStart(t) \/ VacuumEval(t)
           \/ Ready("c1") /\ VacuumTimer(t)
           \/ VacuumNull(t) \/ VacuumVisit(t) \/ VacuumExpire(t)
           \/ VacuumEndSweep(t) \/ VacuumSize(t)
    \/ OutsideSweep /\ Tick

SpecTouch == InitTouch /\ [][NextTouch]_vars

\* C25: a read of an entry's content (ReadFile on a hit, GetItem,
\* GetItemString, WriteItem, WriteFile on a hit) sets the entry's Lastaccess
\* to the time of the read; the steps of InCache and of the sweep's test
\* leave every Lastaccess as it is; and a sweep removes an entry that agrees
\* with the disk only when ExpireItem seconds or more have passed since its
\* Lastaccess.
C25_ReadsPostponeAging ==
    [][/\ \A t \in Callers :
              (th[t].pc \in {"rf_get", "wi"} /\ th'[t] # th[t] /\ Present(th[t].name))
              => /\ Present(th[t].name)'
                 /\ items'.m[th[t].name].Lastaccess = now
       /\ \A t \in Threads :
              (th[t].pc \in {"ch_get", "ch_stat", "ic_chk", "ie_chk"} /\ th'[t] # th[t])
              => items' = items
       /\ \A v \in Vacuums :
              (th[v].pc = "vc_exp" /\ th'[v] # th[v]
               /\ FreshInStore(th[v].name) /\ ~Present(th[v].name)')
              => now - items.m[th[v].name].Lastaccess >= ExpireItem * TicksPerSecond]_vars

\* SpecRound: ExpireItem is any number of seconds up to RoundExpire and the
\* scanner is off.  One client starts the cache, admits a file with CacheNow
\* and applies the aged-out test to it and to a path that was never admitted;
\* between two calls the clock advances by half seconds.
InitRound ==
    \E ei \in 0..RoundExpire :
        InitWith(2, 2, ei, 0, TRUE, {FileA, FileB},
                 [calls |-> RoundCalls, reads |-> 0, sends |-> 0, starts |-> 1,
                  stops |-> 0, writes |-> 0, ticks |-> RoundTicks])

NextRound ==
    \/ CallStart("c1")
    \/ StartSteps("c1")
    \/ Active /\ CallCacheNow("c1", FileA)
    \/ Active /\ \E n \in {FileA, FileB} : CallExpired("c1", n)
    \/ CacheNowSize("c1")
    \/ LoadSteps("c1")
    \/ ExpiredStep("c1")
    \/ \E t \in Listeners : ListenerAdd(t) \/ ListenerEval(t)
    \/ \E t \in Vacuums : VacuumStart(t)
    \/ Ready("c1") /\ Tick

SpecRound == InitRound /\ [][NextRound]_vars

\* s is the whole number of seconds nearest to d ticks, the even one of the
\* two when d lies half-way between them.
WholeSeconds(d, s) ==
    LET off == IF d >= s * TicksPerSecond THEN d - s * TicksPerSecond
               ELSE s * TicksPerSecond - d
    IN  \/ 2 * off < TicksPerSecond
        \/ 2 * off = TicksPerSecond /\ s % 2 = 0

\* C26: the aged-out test answers true for a path that is not in the store,
\* and for an entry exactly when the time since its Lastaccess, rounded to a
\* whole number of seconds, is greater than or equal to ExpireItem.
C26_AgedOutTest ==
    [][\A t \in Callers :
           (th[t].pc = "ex" /\ th'[t] # th[t])
           => LET n == th[t].name
              IN  th'[t].exp
                  <=> \/ ~Present(n)
                      \/ \E s \in 0..(now + 1) :
                             /\ WholeSeconds(now - items.m[n].Lastaccess, s)
                             /\ s >= ExpireItem]_vars

\* The test has answered true for an entry read a second and a half before,
\* with ExpireItem at two seconds.
C26_Witness ==
    /\ th["c1"].op = "expired"
    /\ th["c1"].pc = "done"
    /\ th["c1"].exp
    /\ ExpireItem = 2
    /\ Present(th["c1"].name)
    /\ 2 * (now - items.m[th["c1"].name].Lastaccess) = 3 * TicksPerSecond

\* SpecHalt: Every is one second.  One client starts the cache, admits a
\* file with CacheNow and stops the cache; the clock advances between two
\* calls of the client until Stop is called and stands still from then on, so
\* that a timer that is ready became ready before the signal.
SignalGiven == \E i \in DOMAIN sd : sd[i]

InitHalt ==
    InitWith(2, 2, 0, 1, TRUE, {FileA},
             [calls |-> HaltCalls, reads |-> 0, sends |-> 0, starts |-> 1,
              stops |-> 1, writes |-> 0, ticks |-> TicksPerSecond])

NextHalt ==
    \/ CallStart("c1") \/ CallStop("c1")
    \/ StartSteps("c1")
    \/ StopSteps("c1")
    \/ Active /\ CallCacheNow("c1", FileA)
    \/ CacheNowSize("c1")
    \/ \E t \in {"c1"} \cup Vacuums : LoadSteps(t)
    \/ \E t \in Listeners : ListenerAdd(t) \/ ListenerEval(t) \/ ListenerShutdown(t)
    \/ \E t \in Vacuums : VacuumSteps(t) \/ VacuumShutdown(t)
    \/ Ready("c1") /\ ~SignalGiven /\ Tick
    \/ MapRace

SpecHalt == InitHalt /\ [][NextHalt]_vars

\* C27: a maintenance loop that waits in its select with the shutdown channel
\* closed does not take the branch of the timer, and once the shutdown
\* signal has been given no maintenance loop begins a sweep of the store.
C27_ShutdownWinsOverTimer ==
    [][\A v \in Vacuums :
           /\ (th[v].pc = "vc_sel" /\ th[v].sh # 0 /\ sd[th[v].sh])
              => th'[v].pc # "vc_null"
           /\ SignalGiven
              => ~(th[v].pc = "vc_null" /\ th'[v].pc = "vc_iter")]_vars

\* SpecLock: the scanner and the age test are off.  One client starts the
\* cache and calls CacheNow, ReadFile and WriteFile on a file, one call at a
\* time, while the worker loads what the misses have submitted.  The critical sections of changed
\* and of the store of addItem take two steps, the other ones a single step
\* that waits until the lock is free.
InitLock ==
    InitWith(2, 2, 0, 0, TRUE, {FileA},
             [calls |-> LockCalls, reads |-> LockReads, sends |-> 0, starts |-> 1,
              stops |-> 0, writes |-> 0, ticks |-> 0])

LockedLoadSteps(t) ==
    \/ ChangedGetLock(t) \/ ChangedGetUnlock(t)
    \/ ChangedOsStat(t)
    \/ WasModifiedLock(t) \/ WasModifiedUnlock(t)
    \/ (th[t].chg => MutexFree) /\ InCacheCheck(t)
    \/ ItemExpiredCheck(t)
    \/ MutexFree /\ AddItemNull(t)
    \/ AddItemExpired(t)
    \/ CacheFileStat(t) \/ CacheFileRead(t)
    \/ AddItemPut(t)
    \/ AddItemSetLock(t) \/ AddItemSetUnlock(t)
    \/ AddItemFinish(t)

NextLock ==
    \/ CallStart("c1")
    \/ StartSteps("c1")
    \/ Active /\ CallCacheNow("c1", FileA)
    \/ Active /\ (CallReadFile("c1", FileA) \/ CallWriteFile("c1", FileA))
    \/ MutexFree /\ CacheNowSize("c1")
    \/ ReadFileCheck("c1") \/ ReadFileDisk("c1")
    \/ WriteFileCheck("c1") \/ WriteFileStat("c1") \/ WriteFileOpen("c1")
    \/ MutexFree /\ EntryFree(FileA) /\ (GetItemStep("c1") \/ WriteItemStep("c1"))
    \/ \E t \in Gos : (MutexFree /\ CacheSize(t)) \/ CacheEval(t) \/ CacheSend(t)
    \/ \E t \in {"c1"} \cup Listeners : LockedLoadSteps(t)
    \/ \E t \in Listeners : ListenerAdd(t) \/ ListenerEval(t) \/ ListenerReceive(t)
    \/ \E t \in Vacuums : VacuumStart(t)
    \/ MapRace

SpecLock == InitLock /\ [][NextLock]_vars

\* The steps that go to the disk: os.Stat in changed, os.Stat and os.ReadFile
\* in cacheFile, os.ReadFile in ReadFile, os.Stat and os.Open in WriteFile.
DiskSteps == {"ch_stat", "cf_stat", "cf_read", "rf_disk", "wf_stat", "wf_open"}

\* C28: a task that is at a stat, a file read or an open holds neither the
\* store mutex nor the lock of an entry.
C28_NoDiskUnderLock ==
    \A t \in Threads : th[t].pc \in DiskSteps => th[t].held = {}

\* A task is about to read the file while another one holds the store mutex.
C28_Witness ==
    \E t, u \in Threads :
        /\ th[t].pc = "cf_read"
        /\ th[u].held = {"mutex"}
        /\ th[u].pc = "ch_get"

\* SpecSize: the scanner and the age test are off.  One client starts the
\* cache and calls CacheNow on a file, another calls WriteItem on it with a
\* writer that takes every byte, and the file is written at any moment, also
\* between the stat and the read of a load.
InitSize ==
    InitWith(2, 2, 0, 0, TRUE, {FileA},
             [calls |-> SizeCalls, reads |-> 0, sends |-> 0, starts |-> 1,
              stops |-> 0, writes |-> SizeWrites, ticks |-> 0])

NextSize ==
    \/ CallStart("c1")
    \/ StartSteps("c1")
    \/ Active /\ CallCacheNow("c1", FileA)
    \/ Active /\ CallWriteItem("c2", FileA)
    \/ CacheNowSize("c1")
    \/ LoadSteps("c1")
    \/ WriteItemStep("c2")
    \/ \E t \in Listeners : ListenerAdd(t) \/ ListenerEval(t)
    \/ \E t \in Vacuums : VacuumStart(t)
    \/ WriteDisk(FileA, Content2)

SpecSize == InitSize /\ [][NextSize]_vars

\* C29: every entry of the store has a Size equal to the length of its
\* content, and a WriteItem that found the entry does not return
\* WriteIncomplete.
C29_SizeMatchesContent ==
    /\ \A k \in DOMAIN items.m : items.m[k].Size = Len(items.m[k].content)
    /\ \A t \in Callers :
           (th[t].op = "WriteItem" /\ th[t].pc = "done" /\ th[t].rok)
           => th[t].err # "WriteIncomplete"

\* SpecReject: MaxItems is one entry and MaxSize one byte.  FileA is a
\* regular file of one byte; FileB is a directory, a file of two bytes, or
\* missing, and stays so.  One client starts the cache and calls CacheNow on
\* the two paths and Cache and ReadFile on FileB, one call at a time.
InitReject ==
    \E kind \in FailKinds :
        InitDisk(1, 1, 0, 0, TRUE, FailDisk(kind),
                 [calls |-> RejectCalls, reads |-> RejectReads, sends |-> RejectSends,
                  starts |-> 1, stops |-> 0, writes |-> 0, ticks |-> 0])

NextReject ==
    \/ CallStart("c1")
    \/ Active /\ \E n \in {FileA, FileB} : CallCacheNow("c1", n)
    \/ Active /\ (CallCache("c1", FileB) \/ CallReadFile("c1", FileB))
    \/ ReadFileCheck("c1") \/ ReadFileDisk("c1")
    \/ \E t \in Threads :
           FailSteps(t) \/ ExpireOldestScan(t) \/ ExpireOldestDelete(t)
    \/ MapRace

SpecReject == InitReject /\ [][NextReject]_vars

\* A load of n fails: n is missing, a directory, or above MaxSize.
Refused(n) == ~disk[n].exists \/ disk[n].isDir \/ FileSize(n) > MaxSize

\* C30: no step of a CacheNow, a Cache, a ReadFile or a load of the worker on
\* a path whose load fails changes the set of the cached entries.
C30_FailedAdmissionKeepsStore ==
    [][\A t \in Threads :
           (th[t].name \in Files /\ Refused(th[t].name) /\ th'[t] # th[t])
           => DOMAIN items'.m = DOMAIN items.m]_vars

\* SpecWrite: the scanner and the age test are off, MaxItems is one entry
\* and SquelchItemNotInCache is true.  Two regular files of one byte, never
\* written.  One client starts the cache and calls WriteFile on FileA with a
\* writer that takes every byte, while another calls CacheNow on the two
\* files and Remove on FileA.
InitWrite ==
    InitWith(1, 2, 0, 0, TRUE, {FileA, FileB},
             [calls |-> WriteCalls, reads |-> 0, sends |-> 0, starts |-> 1,
              stops |-> 0, writes |-> 0, ticks |-> 0])

NextWrite ==
    \/ CallStart("c1")
    \/ StartSteps("c1")
    \/ Active /\ CallWriteFile("c1", FileA)
    \/ Active /\ \E n \in {FileA, FileB} : CallCacheNow("c2", n)
    \/ Active /\ CallRemove("c2", FileA)
    \/ WriteFileCheck("c1") \/ WriteItemStep("c1")
    \/ WriteFileStat("c1") \/ WriteFileOpen("c1")
    \/ CacheNowSize("c2") \/ RemoveRead("c2") \/ RemoveDelete("c2") \/ RemoveCheck("c2")
    \/ \E t \in Callers \cup Listeners : AddSteps(t)
    \/ \E t \in Gos : GoCacheSteps(t)
    \/ \E t \in Listeners : ListenerAdd(t) \/ ListenerEval(t) \/ ListenerReceive(t)
    \/ \E t \in Vacuums : VacuumStart(t)
    \/ MapRace

SpecWrite == InitWrite /\ [][NextWrite]_vars

\* C31: a WriteFile that has returned nil has written the bytes of the file,
\* as they are on the disk, to its writer.
C31_WriteFileWritesContents ==
    \A t \in Callers :
        (th[t].op = "WriteFile" /\ th[t].pc = "done" /\ th[t].err = "nil")
        => th[t].content = disk[th[t].name].content

\* SpecQuit: Every is one second.  One client starts the cache, submits a
\* file with Cache and calls Stop, while the clock advances.  The client and
\* the two goroutines of the one Start, when they can take a step, eventually
\* take one, and a select whose shutdown case is ready again and again
\* eventually takes it (the choice among the ready cases is random).
InitQuit ==
    InitWith(2, 2, 0, 1, TRUE, {FileA},
             [calls |-> 0, reads |-> 0, sends |-> QuitSends, starts |-> 1,
              stops |-> 1, writes |-> 0, ticks |-> TicksPerSecond])

\* The steps of goroutine t in this scenario, the calls of the client apart.
QuitSteps(t) ==
    \/ StartSteps(t)
    \/ StopSteps(t)
    \/ CacheSize(t) \/ CacheEval(t) \/ CacheSend(t)
    \/ LoadSteps(t)
    \/ ListenerAdd(t) \/ ListenerEval(t) \/ ListenerReceive(t) \/ ListenerShutdown(t)
    \/ VacuumSteps(t) \/ VacuumShutdown(t)

NextQuit ==
    \/ CallStart("c1")
    \/ Active /\ CallCache("c1", FileA)
    \/ Active /\ CallStop("c1")
    \/ \E t \in Threads : QuitSteps(t)
    \/ Tick
    \/ MapRace

SpecQuit ==
    /\ InitQuit /\ [][NextQuit]_vars
    /\ \A t \in {"c1", ListenerOf(1), VacuumOf(1)} : WF_vars(QuitSteps(t))
    /\ SF_vars(ListenerShutdown(ListenerOf(1)))
    /\ SF_vars(VacuumShutdown(VacuumOf(1)))

\* C32: once Stop is called on an Active cache, the admission goroutine and
\* the scanner eventually exit and Stop eventually returns.
C32_StopTerminates ==
    (th["c1"].op = "Stop" /\ th["c1"].pc = "sp")
    ~> /\ th["c1"].op = "Stop"
       /\ th["c1"].pc = "done"
       /\ \A g \in Listeners \cup Vacuums : th[g].pc \in {"off", "exit"}

\* SpecTwice: one client calls Start at most once, CacheNow on a file while
\* the cache is Active, and Stop up to TwiceStops times, before the Start or
\* after it, one call at a time.  A goroutine that receives from a closed
\* queue runs addItem("").
InitTwice ==
    \E ev \in {0, 1} :
        InitWith(2, 2, 0, ev, TRUE, {FileA},
                 [calls |-> TwiceCalls, reads |-> 0, sends |-> 0, starts |-> 1,
                  stops |-> TwiceStops, writes |-> 0, ticks |-> 0])

NextTwice ==
    \/ CallStart("c1") \/ CallStop("c1")
    \/ StartSteps("c1")
    \/ StopSteps("c1")
    \/ Active /\ CallCacheNow("c1", FileA)
    \/ CacheNowSize("c1")
    \/ \E t \in {"c1"} \cup Listeners : LoadSteps(t)
    \/ \E t \in Listeners :
           ListenerAdd(t) \/ ListenerEval(t) \/ ListenerReceive(t) \/ ListenerShutdown(t)
    \/ \E t \in Vacuums : VacuumStart(t) \/ VacuumEval(t) \/ VacuumShutdown(t)

SpecTwice == InitTwice /\ [][NextTwice]_vars

\* C33: a Stop called on a cache that is Stopped does not panic, and when it
\* has returned the cache is Stopped and the store is empty.
C33_StopIdempotent ==
    \A t \in Callers :
        (th[t].op = "Stop" /\ th[t].stopped0)
        => /\ th[t].pc # "panic"
           /\ th[t].pc = "done" => (Stopped /\ Size = 0)

====
